---- MODULE Spec2Model ----
(***************************************************************************)
(* Scoring engine and backtesting harness of the prediction-market insider *)
(* detector: the indicator functions of insider_trading_detector.py and    *)
(* backtest_analyzer.py, the score aggregator, the signal-point finder and *)
(* the backtest engine with its two report consumers.                      *)
(*                                                                         *)
(* Numbers.  Python floats are modelled as exact rationals [n, d] in       *)
(* lowest terms with d > 0.  Prices are carried in cents (price = c/100).  *)
(* A dict field that is absent is the value AbsentNum, a field holding a   *)
(* non-numeric string is BadStr; both are negative, every real size,       *)
(* price and timestamp is >= 0.  An optional value is a sequence of length *)
(* 0 (None) or 1.                                                          *)
(***************************************************************************)
EXTENDS Integers, Sequences, FiniteSets, TLC

VARIABLES
    pc,                \* position of the running program
    markets,           \* run_backtest: the fetched market dicts (their ids)
    mi,                \* run_backtest: 1-based index of the current market
    all_trades,        \* backtest_market / analyze_market: the fetched trades
    trades_sorted,     \* find_signal_point: the timestamp-sorted trades
    i,                 \* find_signal_point: loop variable
    max_signal,        \* find_signal_point: best aggregate so far
    signal_timestamp,  \* find_signal_point: timestamp of the best point
    scanned,           \* prefix lengths evaluated and the aggregate of each
    fsp_ret,           \* value returned by find_signal_point
    result,            \* value returned by backtest_market
    results,           \* run_backtest: the list of BacktestResult
    sleeps,            \* run_backtest: values of i at which it paused
    report,            \* figures of print_backtest_results
    effectiveness,     \* return value of analyze_indicator_effectiveness
    exc,               \* exception that left the analysis boundary, or ""
    ind,               \* indicator application: [fn, trades, ret]
    call,              \* a function called on its own: [fn, arg, ret, again, prev]
    seen_trade_ids,    \* run_bot: the set of trade ids already seen
    trade_log,         \* run_bot: the data rows of all_trades.csv
    fetched,           \* run_bot: trades of the current cycle not yet handled
    cycles,            \* run_bot: number of polling cycles started
    resolution_metadata, \* backtest_market: market_history as fetched
    data_file,         \* all_trades.csv: absent, or its rows
    writers            \* the two programs writing it: position and locals

vars == <<pc, markets, mi, all_trades, trades_sorted, i, max_signal,
          signal_timestamp, scanned, fsp_ret, result, results, sleeps,
          report, effectiveness, exc, ind,
      call, seen_trade_ids, trade_log, fetched, cycles, resolution_metadata,
      data_file, writers>>

\* the shared file and its writers
csvVars == <<data_file, writers>>

\* the state of the parts that run on their own
others == <<call, seen_trade_ids, trade_log, fetched, cycles, resolution_metadata,
           data_file, writers>>

----------------------------------------------------------------------------
(* Bounds of the model *)

MaxTail == 3
BatchMarkets == 11
MaxShort == 3

----------------------------------------------------------------------------
(* Optional values and field encodings *)

None == <<>>
Some(x) == <<x>>
IsNone(o) == Len(o) = 0
Val(o) == o[1]

AbsentNum == 0 - 2
BadStr == 0 - 1
NoMaker == ""

\* dict.get(key, default)
Get(v, default) == IF v = AbsentNum THEN default ELSE v

\* float(x) raises ValueError on a non-numeric string
FloatRaises(v) == v = BadStr

----------------------------------------------------------------------------
(* Exact rational arithmetic *)

RECURSIVE GCD(_, _)
GCD(a, b) == IF b = 0 THEN a ELSE GCD(b, a % b)

Abs(x) == IF x < 0 THEN 0 - x ELSE x

Rat(n, d) ==
    LET g == GCD(Abs(n), d)
    IN  [n |-> n \div g, d |-> d \div g]

RZero == [n |-> 0, d |-> 1]
RInt(k) == [n |-> k, d |-> 1]
RAdd(a, b) ==
    LET g == GCD(a.d, b.d)
    IN  Rat(a.n * (b.d \div g) + b.n * (a.d \div g), (a.d \div g) * b.d)
RNeg(a) == [n |-> 0 - a.n, d |-> a.d]
RSub(a, b) == RAdd(a, RNeg(b))
RMul(a, b) ==
    LET x == Rat(a.n, b.d)
        y == Rat(b.n, a.d)
    IN  [n |-> x.n * y.n, d |-> x.d * y.d]
RInv(a) == IF a.n < 0 THEN [n |-> 0 - a.d, d |-> 0 - a.n] ELSE [n |-> a.d, d |-> a.n]
RDiv(a, b) == RMul(a, RInv(b))
RAbs(a) == [n |-> Abs(a.n), d |-> a.d]

\* a < b for non-negative rationals, by continued-fraction descent
RECURSIVE PosLess(_, _, _, _)
PosLess(n1, d1, n2, d2) ==
    LET q1 == n1 \div d1
        q2 == n2 \div d2
        r1 == n1 % d1
        r2 == n2 % d2
    IN  IF q1 # q2 THEN q1 < q2
        ELSE IF r2 = 0 THEN FALSE
        ELSE IF r1 = 0 THEN TRUE
        ELSE PosLess(d2, r2, d1, r1)

RLess(a, b) ==
    IF a.n < 0 /\ b.n >= 0 THEN TRUE
    ELSE IF a.n >= 0 /\ b.n < 0 THEN FALSE
    ELSE IF a.n >= 0 THEN PosLess(a.n, a.d, b.n, b.d)
    ELSE PosLess(0 - b.n, b.d, 0 - a.n, a.d)
RLeq(a, b) == ~RLess(b, a)
RMin(a, b) == IF RLess(b, a) THEN b ELSE a
RMax(a, b) == IF RLess(a, b) THEN b ELSE a

\* round(x, digits) with scale = 10^digits, ties to even
Round(a, scale) ==
    LET num == Abs(a.n) * scale
        q == num \div a.d
        rem2 == 2 * (num % a.d)
        m == IF rem2 > a.d \/ (rem2 = a.d /\ q % 2 = 1) THEN q + 1 ELSE q
    IN  Rat(IF a.n < 0 THEN 0 - m ELSE m, scale)

\* largest k with k * k <= x
RECURSIVE ISqrtFrom(_, _)
ISqrtFrom(x, k) == IF (k + 1) * (k + 1) > x THEN k ELSE ISqrtFrom(x, k + 1)
ISqrt(x) == ISqrtFrom(x, 0)

----------------------------------------------------------------------------
(* Trade records and list helpers *)

Trade(ts, maker, size, outcome, price) ==
    [timestamp |-> ts, maker |-> maker, size |-> size, outcome |-> outcome,
     price |-> price]

\* trade.get('maker', trade.get('taker', 'unknown'))
Address(t) == IF t.maker = NoMaker THEN "unknown" ELSE t.maker

\* trade.get('outcome', 'unknown')
Outcome(t) == t.outcome

\* float(trade.get('size', 0))
SizeOf(t) == Get(t.size, 0)
SizeRaises(t) == FloatRaises(t.size)

\* x.get('timestamp', x.get('createdAt', 0)), and float() of it
TsKey(t) == Get(t.timestamp, 0)
TsRaises(t) == FloatRaises(t.timestamp)

\* float(trade.get('price', trade.get('executionPrice', 0))), in cents
PriceOf(t) == Get(t.price, 0)
PriceRaises(t) == FloatRaises(t.price)

\* what an indicator hands back: its score and details, or the exception
\* that leaves it
Ret(score) == [exc |-> "", score |-> score, details |-> <<>>]
Raise(e) == [exc |-> e, score |-> RZero, details |-> <<>>]

RECURSIVE Sum(_)
Sum(s) == IF s = <<>> THEN 0 ELSE Head(s) + Sum(Tail(s))

RECURSIVE RSum(_)
RSum(s) == IF s = <<>> THEN RZero ELSE RAdd(Head(s), RSum(Tail(s)))

SetMax(S) == CHOOSE m \in S : \A x \in S : x <= m

InSeq(x, s) == \E k \in 1..Len(s) : s[k] = x

\* keys of a dict in insertion order
RECURSIVE Distinct(_, _)
Distinct(s, seen) ==
    IF s = <<>> THEN seen
    ELSE Distinct(Tail(s), IF InSeq(Head(s), seen) THEN seen
                           ELSE Append(seen, Head(s)))

\* sorted(xs, key): stable insertion sort of <<key, item>> pairs by
\* ascending integer key
RECURSIVE InsertSorted(_, _)
InsertSorted(x, s) ==
    IF s = <<>> THEN <<x>>
    ELSE IF x[1] < Head(s)[1] THEN <<x>> \o s
    ELSE <<Head(s)>> \o InsertSorted(x, Tail(s))

RECURSIVE SortPairs(_)
SortPairs(s) ==
    IF s = <<>> THEN <<>>
    ELSE InsertSorted(s[Len(s)], SortPairs(SubSeq(s, 1, Len(s) - 1)))

Items(pairs) == [k \in 1..Len(pairs) |-> pairs[k][2]]

\* sorted(trades, key=timestamp) compares a str key with a number key as
\* soon as both kinds occur: TypeError
SortRaises(trades) ==
    /\ \E k \in 1..Len(trades) : TsKey(trades[k]) = BadStr
    /\ \E k \in 1..Len(trades) : TsKey(trades[k]) # BadStr

SortByTs(trades) ==
    Items(SortPairs([k \in 1..Len(trades) |-> <<TsKey(trades[k]), trades[k]>>]))

----------------------------------------------------------------------------
(* Indicator functions *)

\* the trades whose size converts; the others are skipped by "continue"
Usable(trades) == SelectSeq(trades, LAMBDA t : ~SizeRaises(t))

\* address_volumes: keys in insertion order, their volumes, their trade counts
AddressKeys(usable) == Distinct([k \in 1..Len(usable) |-> Address(usable[k])], <<>>)
AddressVolumes(usable, keys) ==
    [k \in 1..Len(keys) |->
        Sum([j \in 1..Len(usable) |->
                IF Address(usable[j]) = keys[k] THEN SizeOf(usable[j]) ELSE 0])]
AddressCounts(usable, keys) ==
    [k \in 1..Len(keys) |->
        Sum([j \in 1..Len(usable) |-> IF Address(usable[j]) = keys[k] THEN 1 ELSE 0])]

\* outcome_volumes
OutcomeKeys(usable) == Distinct([k \in 1..Len(usable) |-> Outcome(usable[k])], <<>>)
OutcomeVolumes(usable, keys) ==
    [k \in 1..Len(keys) |->
        Sum([j \in 1..Len(usable) |->
                IF Outcome(usable[j]) = keys[k] THEN SizeOf(usable[j]) ELSE 0])]

\* herfindahl = sum(share ** 2) over market_shares = vol / total_volume
Herfindahl_Linear(vols, total_volume) ==
    RSum([k \in 1..Len(vols) |-> Rat(vols[k], total_volume)])
Herfindahl(vols, total_volume) ==
    RSum([k \in 1..Len(vols) |->
            [n |-> Rat(vols[k], total_volume).n * Rat(vols[k], total_volume).n,
             d |-> Rat(vols[k], total_volume).d * Rat(vols[k], total_volume).d]])

\* the detector returns herfindahl * 10 as it is
DetectorConcentrationOf(vols) ==
    IF vols = <<>> THEN Ret(RZero)
    ELSE IF Sum(vols) = 0 THEN Raise("ZeroDivisionError")
    ELSE Ret(RMul(Herfindahl(vols, Sum(vols)), RInt(10)))

DetectorConcentration(trades) ==
    IF trades = <<>> THEN Ret(RZero)
    ELSE DetectorConcentrationOf(
             AddressVolumes(Usable(trades), AddressKeys(Usable(trades))))

BacktestConcentrationOf(vols) ==
    IF vols = <<>> THEN Ret(RZero)
    ELSE IF Sum(vols) = 0 THEN Raise("ZeroDivisionError")
    ELSE Ret(RMin(RMul(Herfindahl(vols, Sum(vols)), RInt(10)), RInt(10)))

BacktestConcentration(trades) ==
    IF trades = <<>> THEN Ret(RZero)
    ELSE BacktestConcentrationOf(
             AddressVolumes(Usable(trades), AddressKeys(Usable(trades))))

\* trades_per_hour = len / max(time_diff_hours, 0.1)
TradesPerHour(count, first_time, last_time) ==
    RDiv(RInt(count),
         RMax(IF last_time # first_time THEN Rat(last_time - first_time, 3600)
              ELSE RInt(1),
              Rat(1, 10)))

\* velocity_score = min(trades_per_hour / 10, 10)
VelocityScore_NoMin(trades_per_hour) == RDiv(trades_per_hour, RInt(10))
VelocityScore(trades_per_hour) == RMin(RDiv(trades_per_hour, RInt(10)), RInt(10))

\* the try block of analyze_volume_velocity on the sorted trades
BacktestVelocityOf(sorted) ==
    IF TsRaises(sorted[1]) \/ TsRaises(sorted[Len(sorted)]) THEN Ret(RZero)
    ELSE Ret(VelocityScore(TradesPerHour(Len(sorted), TsKey(sorted[1]),
                                         TsKey(sorted[Len(sorted)]))))

BacktestVelocity(trades) ==
    IF trades = <<>> THEN Ret(RZero)
    ELSE IF SortRaises(trades) THEN Raise("TypeError")
    ELSE IF Len(trades) < 2 THEN Ret(RZero)
    ELSE BacktestVelocityOf(SortByTs(trades))

\* the detector also sums the sizes of the trades of the last 24 hours
DetectorVelocityOf(sorted) ==
    IF \E k \in 1..Len(sorted) : TsRaises(sorted[k]) THEN Ret(RZero)
    ELSE IF \E k \in 1..Len(sorted) :
                /\ TsKey(sorted[Len(sorted)]) - TsKey(sorted[k]) < 86400
                /\ SizeRaises(sorted[k])
         THEN Ret(RZero)
    ELSE Ret(VelocityScore(TradesPerHour(Len(sorted), TsKey(sorted[1]),
                                         TsKey(sorted[Len(sorted)]))))

DetectorVelocity(trades) ==
    IF trades = <<>> THEN Ret(RZero)
    ELSE IF SortRaises(trades) THEN Raise("TypeError")
    ELSE IF Len(trades) < 2 THEN Ret(RZero)
    ELSE DetectorVelocityOf(SortByTs(trades))

\* outcome_distribution: sorted(outcome_volumes.items(), key=volume,
\* reverse=True), each with round(vol / total, 3)
OutcomeDistribution(keys, vols, total) ==
    Items(SortPairs([k \in 1..Len(keys) |->
                        <<0 - vols[k],
                          <<keys[k], Round(Rat(vols[k], total), 1000)>> >>]))

\* skew_score = min(abs(largest_share - 0.5) * 20, 10)
SkewScore_Ten(largest_share) ==
    RMin(RMul(RAbs(RSub(largest_share, Rat(1, 2))), RInt(10)), RInt(10))
SkewScore(largest_share) ==
    RMin(RMul(RAbs(RSub(largest_share, Rat(1, 2))), RInt(20)), RInt(10))

DetectorSkewOf(keys, vols) ==
    IF keys = <<>> THEN Ret(RZero)
    ELSE IF Sum(vols) = 0 THEN Ret(RZero)
    ELSE [exc |-> "",
          score |-> SkewScore(Rat(SetMax({vols[k] : k \in 1..Len(vols)}), Sum(vols))),
          details |-> OutcomeDistribution(keys, vols, Sum(vols))]

DetectorSkew(trades) ==
    IF trades = <<>> THEN Ret(RZero)
    ELSE DetectorSkewOf(OutcomeKeys(Usable(trades)),
                        OutcomeVolumes(Usable(trades), OutcomeKeys(Usable(trades))))

\* with total = 0 the backtester takes largest_share = 0 and then divides by
\* total for the outcome_distribution
BacktestSkewOf(keys, vols) ==
    IF keys = <<>> THEN Ret(RZero)
    ELSE IF Sum(vols) = 0 THEN Raise("ZeroDivisionError")
    ELSE [exc |-> "",
          score |-> SkewScore(Rat(SetMax({vols[k] : k \in 1..Len(vols)}), Sum(vols))),
          details |-> OutcomeDistribution(keys, vols, Sum(vols))]

BacktestSkew(trades) ==
    IF trades = <<>> THEN Ret(RZero)
    ELSE BacktestSkewOf(OutcomeKeys(Usable(trades)),
                        OutcomeVolumes(Usable(trades), OutcomeKeys(Usable(trades))))

\* the detector skips a trade whose size, timestamp or price fails float()
WhaleUsable(trades) ==
    SelectSeq(trades, LAMBDA t : ~SizeRaises(t) /\ ~TsRaises(t) /\ ~PriceRaises(t))

\* time_span of the trades of address a
TimeSpan(usable, a) ==
    SetMax({TsKey(usable[j]) : j \in {k \in 1..Len(usable) : Address(usable[k]) = a}})
    + SetMax({0 - TsKey(usable[j]) :
                 j \in {k \in 1..Len(usable) : Address(usable[k]) = a}})

\* accumulation_speed = total_size / max(time_span / 3600, 1)
AccumulationSpeed(total_size, time_span) ==
    RDiv(RInt(total_size), RMax(Rat(time_span, 3600), RInt(1)))

\* whale_score = min(top_whale['accumulation_speed'] / 100, 10)
DetectorWhaleScore(accumulation_speed) ==
    RMin(RDiv(accumulation_speed, RInt(100)), RInt(10))

\* index of the first address with at least 2 trades and the largest
\* total_position: whale_data[0] after the stable sort
TopWhale_SmallestPosition(vols, counts) ==
    CHOOSE k \in 1..Len(vols) :
        /\ counts[k] >= 2
        /\ \A j \in 1..Len(vols) :
              counts[j] >= 2 => vols[k] < vols[j] \/ (vols[j] = vols[k] /\ k <= j)
TopWhale(vols, counts) ==
    CHOOSE k \in 1..Len(vols) :
        /\ counts[k] >= 2
        /\ \A j \in 1..Len(vols) :
              counts[j] >= 2 => vols[j] < vols[k] \/ (vols[j] = vols[k] /\ k <= j)

DetectorWhaleOf(usable, keys, vols, counts) ==
    IF \A k \in 1..Len(keys) : counts[k] < 2 THEN Ret(RZero)
    ELSE Ret(DetectorWhaleScore(
                 AccumulationSpeed(vols[TopWhale(vols, counts)],
                                   TimeSpan(usable, keys[TopWhale(vols, counts)]))))

DetectorWhale(trades) ==
    IF trades = <<>> THEN Ret(RZero)
    ELSE DetectorWhaleOf(
             WhaleUsable(trades),
             AddressKeys(WhaleUsable(trades)),
             AddressVolumes(WhaleUsable(trades), AddressKeys(WhaleUsable(trades))),
             AddressCounts(WhaleUsable(trades), AddressKeys(WhaleUsable(trades))))

\* whale_score = min(top_position / 1000, 10)
BacktestWhaleScore_NoMin(top_position) == Rat(top_position, 1000)
BacktestWhaleScore(top_position) == RMin(Rat(top_position, 1000), RInt(10))

BacktestWhaleOf(vols, counts) ==
    IF \A k \in 1..Len(vols) : counts[k] < 2 THEN Ret(RZero)
    ELSE Ret(BacktestWhaleScore(
                 SetMax({vols[k] : k \in {j \in 1..Len(vols) : counts[j] >= 2}})))

BacktestWhale(trades) ==
    IF trades = <<>> THEN Ret(RZero)
    ELSE BacktestWhaleOf(
             AddressVolumes(Usable(trades), AddressKeys(Usable(trades))),
             AddressCounts(Usable(trades), AddressKeys(Usable(trades))))

Mean(xs) == RDiv(RSum(xs), RInt(Len(xs)))

\* statistics.stdev around the given mean; the square root is taken to 2
\* decimals, rounded down
Stdev(xs, mean) ==
    Rat(ISqrt((RSum([k \in 1..Len(xs) |->
                        RMul(RSub(xs[k], mean), RSub(xs[k], mean))]).n * 10000)
              \div (RSum([k \in 1..Len(xs) |->
                        RMul(RSub(xs[k], mean), RSub(xs[k], mean))]).d
                    * (Len(xs) - 1))),
        100)

\* movement_score = min((avg_change + volatility) * 50, 10)
MovementScore(price_changes) ==
    RMin(RMul(RAdd(Mean(price_changes),
                   IF Len(price_changes) > 1
                   THEN Stdev(price_changes, Mean(price_changes)) ELSE RZero),
              RInt(50)),
         RInt(10))

\* prices: the positive prices of the sorted trades
PositivePrices(sorted) ==
    [k \in 1..Len(SelectSeq(sorted, LAMBDA t : PriceOf(t) > 0)) |->
        PriceOf(SelectSeq(sorted, LAMBDA t : PriceOf(t) > 0)[k])]

DetectorMovementOf(prices) ==
    IF Len(prices) < 2 THEN Ret(RZero)
    ELSE Ret(MovementScore([k \in 1..(Len(prices) - 1) |->
                               Rat(Abs(prices[k + 1] - prices[k]), prices[k])]))

DetectorMovement(trades) ==
    IF trades = <<>> THEN Ret(RZero)
    ELSE IF SortRaises(trades) THEN Raise("TypeError")
    ELSE IF Len(trades) < 3 THEN Ret(RZero)
    ELSE IF \E k \in 1..Len(trades) : PriceRaises(trades[k]) \/ SizeRaises(trades[k])
         THEN Ret(RZero)
    ELSE DetectorMovementOf(PositivePrices(SortByTs(trades)))

----------------------------------------------------------------------------
(* Score aggregator *)

Scores(c, v, s, m, w) ==
    [concentration |-> c, velocity |-> v, skew |-> s, movement |-> m, whale |-> w]

DetectorProbability(scores) ==
    RMin(RDiv(RSum(<<RMul(scores.concentration, Rat(25, 100)),
                     RMul(scores.velocity, Rat(15, 100)),
                     RMul(scores.skew, Rat(20, 100)),
                     RMul(scores.movement, Rat(15, 100)),
                     RMul(scores.whale, Rat(25, 100))>>),
              RInt(10)),
         RInt(1))

\* the backtester's sum has no movement term
BacktestProbability(scores) ==
    RMin(RDiv(RSum(<<RMul(scores.concentration, Rat(25, 100)),
                     RMul(scores.velocity, Rat(15, 100)),
                     RMul(scores.skew, Rat(20, 100)),
                     RMul(scores.whale, Rat(25, 100))>>),
              RInt(10)),
         RInt(1))

----------------------------------------------------------------------------
(* Backtest helpers *)

GetTradesBeforeTimestamp_AtOrBefore(trades, timestamp) ==
    SelectSeq(trades, LAMBDA t : TsKey(t) <= timestamp)
GetTradesBeforeTimestamp(trades, timestamp) ==
    SelectSeq(trades, LAMBDA t : TsKey(t) < timestamp)

\* the trades strictly within 300 seconds of the timestamp
Nearby_Wide(trades, timestamp) ==
    SelectSeq(trades, LAMBDA t : Abs(TsKey(t) - timestamp) < 4000)
Nearby(trades, timestamp) ==
    SelectSeq(trades, LAMBDA t : Abs(TsKey(t) - timestamp) < 300)

\* price of the nearest of them; None when there is none
NearestPrice_Farthest(nearby, timestamp) ==
    IF nearby # <<>>
    THEN Some(PriceOf(
             SortPairs([k \in 1..Len(nearby) |->
                          <<Abs(TsKey(nearby[k]) - timestamp), nearby[k]>>])[Len(nearby)][2]))
    ELSE None
NearestPrice(nearby, timestamp) ==
    IF nearby # <<>>
    THEN Some(PriceOf(
             SortPairs([k \in 1..Len(nearby) |->
                          <<Abs(TsKey(nearby[k]) - timestamp), nearby[k]>>])[1][2]))
    ELSE None

GetMarketPriceAtTimestamp(trades, timestamp) ==
    NearestPrice(Nearby(trades, timestamp), timestamp)

\* the four indicator results of one window: the exception of the first one
\* that raises, else the scores dict
ScoresOf(c, v, s, w) ==
    [exc |-> IF c.exc # "" THEN c.exc
             ELSE IF v.exc # "" THEN v.exc
             ELSE IF s.exc # "" THEN s.exc
             ELSE w.exc,
     scores |-> Scores(c.score, v.score, s.score, RZero, w.score),
     details |-> s.details]

WindowScores(window) ==
    ScoresOf(BacktestConcentration(window), BacktestVelocity(window),
             BacktestSkew(window), BacktestWhale(window))

\* outcome_prediction: first maximum of the rounded outcome_distribution
OutcomePrediction(dist) ==
    IF dist # <<>>
    THEN dist[CHOOSE k \in 1..Len(dist) :
                 /\ \A j \in 1..Len(dist) : RLeq(dist[j][2], dist[k][2])
                 /\ \A j \in 1..(k - 1) : RLess(dist[j][2], dist[k][2])][1]
    ELSE "unknown"

\* market_history as fetch_market_history returns it
History(source, by, time) ==
    [resolutionSource |-> source, resolvedBy |-> by, resolvedTime |-> time]

\* if market_resolved and actual_outcome
ResolutionKnown(market_history) ==
    /\ ~IsNone(market_history.resolutionSource)
    /\ ~IsNone(market_history.resolvedBy)
    /\ Val(market_history.resolvedBy) # ""

\* predicted_correctly starts as False and is set for a known resolution
PredictedCorrectly_WheneverKnown(market_history, outcome_prediction) ==
    ResolutionKnown(market_history)
PredictedCorrectly(market_history, outcome_prediction) ==
    IF ResolutionKnown(market_history)
    THEN outcome_prediction = Val(market_history.resolvedBy)
    ELSE FALSE

\* the BacktestResult, or None when a price is missing
BacktestResult(market_id, ts, insider_prob, market_history, trades_analyzed, ws, pre_signal_price, post_signal_price) ==
    IF IsNone(pre_signal_price) \/ IsNone(post_signal_price) THEN None
    ELSE Some(
        [market_id |-> market_id,
         signal_timestamp |-> ts,
         insider_probability |-> insider_prob,
         indicator_scores |->
             [Concentration |-> Round(ws.scores.concentration, 100),
              Velocity |-> Round(ws.scores.velocity, 100),
              Skew |-> Round(ws.scores.skew, 100),
              Whale |-> Round(ws.scores.whale, 100)],
         pre_signal_price |-> Val(pre_signal_price),
         post_signal_price |-> Val(post_signal_price),
         price_movement |-> Val(post_signal_price) - Val(pre_signal_price),
         price_movement_pct |->
             IF Val(pre_signal_price) > 0
             THEN Round(Rat((Val(post_signal_price) - Val(pre_signal_price)) * 100,
                            Val(pre_signal_price)), 100)
             ELSE RZero,
         predicted_correctly |->
             PredictedCorrectly(market_history, OutcomePrediction(ws.details)),
         outcome_prediction |-> OutcomePrediction(ws.details),
         actual_outcome |-> market_history.resolvedBy,
         market_resolved |-> ~IsNone(market_history.resolutionSource),
         time_to_resolution_hours |->
             IF ResolutionKnown(market_history)
             THEN Some(Rat(Get(market_history.resolvedTime, ts + 86400) - ts, 3600))
             ELSE None,
         trades_analyzed |-> trades_analyzed])

\* everything backtest_market does once the signal point is known
BacktestAtSignalOf(market_id, trades, ts, insider_prob, market_history, trades_at_signal, ws) ==
    IF ws.exc # "" THEN [exc |-> ws.exc, ret |-> None]
    ELSE [exc |-> "",
          ret |-> BacktestResult(market_id, ts, insider_prob, market_history,
                                 Len(trades_at_signal), ws,
                                 GetMarketPriceAtTimestamp(trades_at_signal, ts),
                                 GetMarketPriceAtTimestamp(trades, ts + 3600))]

BacktestAtSignal(market_id, trades, ts, insider_prob, market_history) ==
    BacktestAtSignalOf(market_id, trades, ts, insider_prob, market_history,
                       GetTradesBeforeTimestamp(trades, ts),
                       WindowScores(GetTradesBeforeTimestamp(trades, ts)))

----------------------------------------------------------------------------
(* Inputs: what the Polymarket API can hand to the backtester *)

Repeat(x, k) == [j \in 1..k |-> x]

SeqsUpTo(S, k) == UNION {[1..m -> S] : m \in 0..k}

\* trades that follow the opening run of a market's history
HistoryTrades ==
    {Trade(0, "A", 100, "YES", 50), Trade(100, "A", 0, "YES", 60),
     Trade(100, "B", 100, "NO", 40), Trade(3600, "A", 100, "YES", 55),
     Trade(3700, "A", 0, "NO", 70), Trade(7300, "B", 100, "NO", 30)}

BaseTrades == {Trade(0, "A", 100, "YES", 50), Trade(0, "A", 0, "YES", 50)}

BaseLens == {0, 4, 9, 10}

\* fetch_historical_trades(market_id)
Feed(market_id) ==
    IF market_id = "m2"
    THEN {Repeat(Trade(0, "A", 100, "YES", 50), 10)
            \o <<Trade(100, "A", 0, "YES", 60), Trade(100, "A", 0, "YES", 60), t>> :
          t \in {Trade(3700, "A", 0, "NO", 70), Trade(7300, "B", 100, "NO", 30)}}
         \cup {Repeat(Trade(0, "A", 100, "YES", 50), 9)
                 \o <<Trade(50, "A", 100, "YES", 52), Trade(100, "A", 0, "YES", 60),
                      Trade(3600, "A", 100, "YES", 55), Trade(3700, "A", 0, "NO", 70)>>}
    ELSE {Repeat(b, k) \o tail :
          b \in BaseTrades, k \in BaseLens, tail \in SeqsUpTo(HistoryTrades, MaxTail)}

\* fetch_resolved_markets(): the ids of the markets it returns
MarketLists ==
    {<<>>, <<"">>, <<"m1">>, <<"m1", "m2">>,
     Repeat("", BatchMarkets - 2) \o <<"m2", "m2">>}

\* fetch_market_history(market_id)
MarketHistories ==
    {History(None, None, AbsentNum),
     History(None, Some("YES"), AbsentNum),
     History(Some("uma"), None, AbsentNum),
     History(Some("uma"), Some("YES"), 90000),
     History(Some("uma"), Some("NO"), AbsentNum)}

----------------------------------------------------------------------------
(* State after construction *)

NoInd == [fn |-> "", trades |-> <<>>, ret |-> Ret(RZero)]

NoReport ==
    [printed |-> FALSE, predicted_correctly |-> 0, total |-> 0,
     accuracy |-> RZero, markets_resolved |-> 0]

NoFsp == [timestamp |-> None, probability |-> None]

\* neither bot.py nor backtest.py is running
NoWriters ==
    [bot |-> [pc |-> "", rows |-> 0],
     backtest |-> [pc |-> "", rows |-> 0, file_exists |-> FALSE]]

NoCall == [fn |-> "", arg |-> <<>>, ret |-> <<>>, again |-> None, prev |-> None]

OthersIdle ==
    /\ call = NoCall
    /\ seen_trade_ids = {}
    /\ trade_log = <<>>
    /\ fetched = <<>>
    /\ cycles = 0
    /\ resolution_metadata = [resolutionSource |-> None, resolvedBy |-> None,
                         resolvedTime |-> AbsentNum]
    /\ data_file = None
    /\ writers = NoWriters

Init ==
    /\ pc = "main"
    /\ markets = <<>>
    /\ mi = 0
    /\ all_trades = <<>>
    /\ trades_sorted = <<>>
    /\ i = 0
    /\ max_signal = RZero
    /\ signal_timestamp = None
    /\ scanned = <<>>
    /\ fsp_ret = NoFsp
    /\ result = None
    /\ results = <<>>
    /\ sleeps = <<>>
    /\ report = NoReport
    /\ effectiveness = None
    /\ exc = ""
    /\ ind = NoInd
    /\ OthersIdle

----------------------------------------------------------------------------
(* run_backtest and backtest_market *)

\* run_backtest up to the first backtest_market call
RunBacktest ==
    /\ pc = "main"
    /\ UNCHANGED others
    /\ \E ms \in MarketLists :
         /\ markets' = ms
         /\ IF ms = <<>>
            THEN mi' = 0 /\ pc' = "returned"
            ELSE mi' = 1 /\ pc' = "backtest_market"
    /\ UNCHANGED <<all_trades, trades_sorted, i, max_signal, signal_timestamp,
                   scanned, fsp_ret, result, results, sleeps, report,
                   effectiveness, exc, ind>>

\* backtest_market up to the find_signal_point call
BacktestMarket ==
    /\ pc = "backtest_market"
    /\ UNCHANGED others
    /\ IF markets[mi] = ""
       THEN /\ result' = None
            /\ pc' = "loop"
            /\ UNCHANGED all_trades
       ELSE \E tr \in Feed(markets[mi]) :
              /\ all_trades' = tr
              /\ result' = None
              /\ pc' = IF Len(tr) < 5 THEN "loop" ELSE "find_signal_point"
    /\ trades_sorted' = <<>>
    /\ i' = 0
    /\ max_signal' = RZero
    /\ signal_timestamp' = None
    /\ scanned' = <<>>
    /\ fsp_ret' = NoFsp
    /\ UNCHANGED <<markets, mi, results, sleeps, report, effectiveness, exc, ind>>

\* if signal > max_signal
Improves_OnTie(signal, best) == RLeq(best, signal)
Improves(signal, best) == RLess(best, signal)

\* the trade whose timestamp becomes signal_timestamp: trades_sorted[i],
\* zero-based, for the window trades_sorted[:i]
SignalTrade_LastOfWindow(sorted, k) == sorted[k]
SignalTrade(sorted, k) == sorted[k + 1]

\* range(10, len(trades_sorted))
ScanStart_Nine == 10 - 1
ScanStart == 10
ScanEnd(sorted) == Len(sorted)

\* find_signal_point up to the loop
FindSignalPoint ==
    /\ pc = "find_signal_point"
    /\ UNCHANGED others
    /\ IF Len(all_trades) < 10
       THEN /\ fsp_ret' = NoFsp
            /\ pc' = "signal"
            /\ UNCHANGED <<trades_sorted, i, exc>>
       ELSE IF SortRaises(all_trades)
       THEN /\ exc' = "TypeError"
            /\ pc' = "raised"
            /\ UNCHANGED <<trades_sorted, i, fsp_ret>>
       ELSE /\ trades_sorted' = SortByTs(all_trades)
            /\ i' = ScanStart
            /\ pc' = "scan"
            /\ UNCHANGED <<fsp_ret, exc>>
    /\ max_signal' = RZero
    /\ signal_timestamp' = None
    /\ UNCHANGED <<markets, mi, all_trades, scanned, result, results, sleeps,
                   report, effectiveness, ind>>

\* one iteration of the loop of find_signal_point
ScanStep ==
    /\ pc = "scan"
    /\ UNCHANGED others
    /\ i < ScanEnd(trades_sorted)
    /\ \E ws \in {WindowScores(SubSeq(trades_sorted, 1, i))} :
         IF ws.exc # ""
         THEN /\ exc' = ws.exc
              /\ pc' = "raised"
              /\ UNCHANGED <<i, max_signal, signal_timestamp, scanned>>
         ELSE \E signal \in {BacktestProbability(ws.scores)} :
                /\ scanned' = Append(scanned, [len |-> i, signal |-> signal])
                /\ IF Improves(signal, max_signal)
                   THEN IF TsRaises(SignalTrade(trades_sorted, i))
                        THEN /\ exc' = "ValueError"
                             /\ pc' = "raised"
                             /\ UNCHANGED <<i, max_signal, signal_timestamp>>
                        ELSE /\ max_signal' = signal
                             /\ signal_timestamp' =
                                    Some(TsKey(SignalTrade(trades_sorted, i)))
                             /\ i' = i + 1
                             /\ UNCHANGED <<pc, exc>>
                   ELSE /\ i' = i + 1
                        /\ UNCHANGED <<pc, exc, max_signal, signal_timestamp>>
    /\ UNCHANGED <<markets, mi, all_trades, trades_sorted, fsp_ret, result,
                   results, sleeps, report, effectiveness, ind>>

\* return signal_timestamp, max_signal
ScanReturn ==
    /\ pc = "scan"
    /\ UNCHANGED others
    /\ ~(i < ScanEnd(trades_sorted))
    /\ fsp_ret' = [timestamp |-> signal_timestamp, probability |-> Some(max_signal)]
    /\ pc' = "signal"
    /\ UNCHANGED <<markets, mi, all_trades, trades_sorted, i, max_signal,
                   signal_timestamp, scanned, result, results, sleeps, report,
                   effectiveness, exc, ind>>

\* backtest_market from the return of find_signal_point to its own return
BacktestMarketFinish ==
    /\ pc = "signal"
    /\ UNCHANGED <<call, seen_trade_ids, trade_log, fetched, cycles, csvVars>>
    /\ IF IsNone(fsp_ret.timestamp)
       THEN /\ result' = None
            /\ pc' = "loop"
            /\ UNCHANGED <<exc, resolution_metadata>>
       ELSE \E fetched_history \in MarketHistories :
            \E r \in {BacktestAtSignal(markets[mi], all_trades,
                                       Val(fsp_ret.timestamp),
                                       Val(fsp_ret.probability), fetched_history)} :
              IF r.exc # ""
              THEN /\ exc' = r.exc
                   /\ pc' = "raised"
                   /\ UNCHANGED <<result, resolution_metadata>>
              ELSE /\ result' = r.ret
                   /\ pc' = "loop"
                   /\ resolution_metadata' =
                          IF IsNone(r.ret) THEN resolution_metadata
                                           ELSE fetched_history
                   /\ UNCHANGED exc
    /\ UNCHANGED <<markets, mi, all_trades, trades_sorted, i, max_signal,
                   signal_timestamp, scanned, fsp_ret, results, sleeps, report,
                   effectiveness, ind>>

\* if i % 10 == 0, i counting from 1
RateLimited_Nine(k) == k % 9 = 0
RateLimited(k) == k % 10 = 0

\* the rest of one iteration of the loop of run_backtest
LoopNext ==
    /\ pc = "loop"
    /\ UNCHANGED others
    /\ results' = IF IsNone(result) THEN results ELSE Append(results, Val(result))
    /\ sleeps' = IF RateLimited(mi) THEN Append(sleeps, mi) ELSE sleeps
    /\ IF mi < Len(markets)
       THEN mi' = mi + 1 /\ pc' = "backtest_market"
       ELSE mi' = mi /\ pc' = "returned"
    /\ UNCHANGED <<markets, all_trades, trades_sorted, i, max_signal,
                   signal_timestamp, scanned, fsp_ret, result, report,
                   effectiveness, exc, ind>>

----------------------------------------------------------------------------
(* Consumers of the results *)

\* "if r.predicted_correctly" and "if not r.predicted_correctly"
CountedCorrect(r) == r.predicted_correctly
CountedIncorrect(r) == ~r.predicted_correctly
IsResolved(r) == r.market_resolved

\* the accuracy metrics of print_backtest_results
PrintedMetrics(rs) ==
    [printed |-> TRUE,
     predicted_correctly |-> Len(SelectSeq(rs, CountedCorrect)),
     total |-> Len(rs),
     accuracy |-> Rat(Len(SelectSeq(rs, CountedCorrect)) * 100, Len(rs)),
     markets_resolved |-> Len(SelectSeq(rs, IsResolved))]

IndicatorNames == {"Concentration", "Velocity", "Skew", "Whale"}

IndicatorScores(rs, indicator) ==
    [k \in 1..Len(rs) |-> rs[k].indicator_scores[indicator]]

\* statistics.mean(xs) if xs else 0
MeanOrZero(xs) == IF xs = <<>> THEN RZero ELSE Mean(xs)

EffectivenessOf_NoGuard(correct_scores, incorrect_scores) ==
    [avg_when_correct |-> Round(MeanOrZero(correct_scores), 100),
     avg_when_incorrect |-> Round(MeanOrZero(incorrect_scores), 100),
     effectiveness_delta |->
         Round(RSub(MeanOrZero(correct_scores), MeanOrZero(incorrect_scores)), 100),
     frequency_in_correct |-> Len(correct_scores),
     frequency_in_incorrect |-> Len(incorrect_scores)]
EffectivenessOf(correct_scores, incorrect_scores) ==
    [avg_when_correct |-> Round(MeanOrZero(correct_scores), 100),
     avg_when_incorrect |-> Round(MeanOrZero(incorrect_scores), 100),
     effectiveness_delta |->
         IF correct_scores # <<>> /\ incorrect_scores # <<>>
         THEN Round(RSub(Mean(correct_scores), Mean(incorrect_scores)), 100)
         ELSE RZero,
     frequency_in_correct |-> Len(correct_scores),
     frequency_in_incorrect |-> Len(incorrect_scores)]

IndicatorEffectiveness(rs) ==
    [indicator \in IndicatorNames |->
        EffectivenessOf(IndicatorScores(SelectSeq(rs, CountedCorrect), indicator),
                        IndicatorScores(SelectSeq(rs, CountedIncorrect), indicator))]

\* main: print_backtest_results(results)
PrintBacktestResults ==
    /\ pc = "returned"
    /\ UNCHANGED others
    /\ results # <<>>
    /\ report' = PrintedMetrics(results)
    /\ pc' = "printed"
    /\ UNCHANGED <<markets, mi, all_trades, trades_sorted, i, max_signal,
                   signal_timestamp, scanned, fsp_ret, result, results, sleeps,
                   effectiveness, exc, ind>>

\* main: analyze_indicator_effectiveness(results)
AnalyzeIndicatorEffectiveness ==
    /\ pc = "printed"
    /\ UNCHANGED others
    /\ effectiveness' = Some(IndicatorEffectiveness(results))
    /\ pc' = "done"
    /\ UNCHANGED <<markets, mi, all_trades, trades_sorted, i, max_signal,
                   signal_timestamp, scanned, fsp_ret, result, results, sleeps,
                   report, exc, ind>>

\* main: "No successful backtest results"
NoResults ==
    /\ pc = "returned"
    /\ UNCHANGED others
    /\ results = <<>>
    /\ pc' = "done"
    /\ UNCHANGED <<markets, mi, all_trades, trades_sorted, i, max_signal,
                   signal_timestamp, scanned, fsp_ret, result, results, sleeps,
                   report, effectiveness, exc, ind>>

\* main: except Exception
MainExcept ==
    /\ pc = "raised"
    /\ UNCHANGED others
    /\ pc' = "done"
    /\ UNCHANGED <<markets, mi, all_trades, trades_sorted, i, max_signal,
                   signal_timestamp, scanned, fsp_ret, result, results, sleeps,
                   report, effectiveness, exc, ind>>

Next ==
    \/ RunBacktest
    \/ BacktestMarket
    \/ FindSignalPoint
    \/ ScanStep
    \/ ScanReturn
    \/ BacktestMarketFinish
    \/ LoopNext
    \/ PrintBacktestResults
    \/ AnalyzeIndicatorEffectiveness
    \/ NoResults
    \/ MainExcept

Spec == Init /\ [][Next]_vars

----------------------------------------------------------------------------
(* The indicator functions and analyze_market, called on their own *)

\* trades with well-formed and malformed fields
IndicatorTrades ==
    {Trade(0, "A", 100, "YES", 50), Trade(0, "A", 0, "YES", 50),
     Trade(100, "B", 100, "NO", 40), Trade(7200, "A", 300, "YES", 60),
     Trade(7200, "B", 300, "YES", 0),
     Trade(50, "A", BadStr, "YES", 50), Trade(BadStr, "A", 100, "YES", 50),
     Trade(50, "A", 100, "YES", BadStr), Trade(50, NoMaker, 100, "YES", 50),
     Trade(50, "A", AbsentNum, "YES", 50), Trade(AbsentNum, "A", 100, "NO", 50),
     Trade(50, "B", 100, "NO", AbsentNum)}

BurstLen == 11

BurstTrades ==
    {Trade(0, "A", 100, "YES", 50), Trade(100, "B", 100, "NO", 50),
     Trade(0, "A", 1000, "YES", 50)}

\* two addresses that trade twice: A holds more, B accumulates faster
WhaleTrades ==
    {Trade(0, "A", 100, "YES", 50), Trade(7200, "A", 300, "YES", 60),
     Trade(100, "B", 100, "NO", 40), Trade(100, "B", 200, "NO", 40)}

IndicatorInputs ==
    SeqsUpTo(IndicatorTrades, MaxShort)
      \cup {Repeat(b, BurstLen) \o <<t>> : b \in BurstTrades, t \in BurstTrades}
      \cup [1..4 -> WhaleTrades]

IndicatorFns ==
    {"detector.concentration", "detector.velocity", "detector.skew",
     "detector.movement", "detector.whale", "backtest.concentration",
     "backtest.velocity", "backtest.skew", "backtest.whale"}

Apply(fn, trades) ==
    CASE fn = "detector.concentration" -> DetectorConcentration(trades)
      [] fn = "detector.velocity" -> DetectorVelocity(trades)
      [] fn = "detector.skew" -> DetectorSkew(trades)
      [] fn = "detector.movement" -> DetectorMovement(trades)
      [] fn = "detector.whale" -> DetectorWhale(trades)
      [] fn = "backtest.concentration" -> BacktestConcentration(trades)
      [] fn = "backtest.velocity" -> BacktestVelocity(trades)
      [] fn = "backtest.skew" -> BacktestSkew(trades)
      [] fn = "backtest.whale" -> BacktestWhale(trades)

\* the TradeAnalysis built from the five indicator results; the final
\* sorted(trades, key=timestamp) is outside any try
TradeAnalysisOf(market_id, c, v, s, m, w, sort_raises) ==
    IF c.exc # "" THEN [exc |-> c.exc, ret |-> None]
    ELSE IF v.exc # "" THEN [exc |-> v.exc, ret |-> None]
    ELSE IF s.exc # "" THEN [exc |-> s.exc, ret |-> None]
    ELSE IF m.exc # "" THEN [exc |-> m.exc, ret |-> None]
    ELSE IF w.exc # "" THEN [exc |-> w.exc, ret |-> None]
    ELSE IF sort_raises THEN [exc |-> "TypeError", ret |-> None]
    ELSE [exc |-> "",
          ret |-> Some(
              [market_id |-> market_id,
               sentiment_score |-> s.score,
               risk_score |-> RDiv(RSum(<<c.score, v.score, s.score>>), RInt(3)),
               insider_probability |->
                   DetectorProbability(Scores(c.score, v.score, s.score,
                                              m.score, w.score))])]

DetectorAnalyzeMarket(market_id, trades) ==
    IF market_id = "" \/ trades = <<>> THEN [exc |-> "", ret |-> None]
    ELSE TradeAnalysisOf(market_id, DetectorConcentration(trades),
                         DetectorVelocity(trades), DetectorSkew(trades),
                         DetectorMovement(trades), DetectorWhale(trades),
                         SortRaises(trades))

InitInd ==
    /\ pc = "trades"
    /\ markets = <<>>
    /\ mi = 0
    /\ all_trades \in IndicatorInputs
    /\ trades_sorted = <<>>
    /\ i = 0
    /\ max_signal = RZero
    /\ signal_timestamp = None
    /\ scanned = <<>>
    /\ fsp_ret = NoFsp
    /\ result = None
    /\ results = <<>>
    /\ sleeps = <<>>
    /\ report = NoReport
    /\ effectiveness = None
    /\ exc = ""
    /\ ind = NoInd
    /\ OthersIdle

\* one indicator function called on the trades
ApplyIndicator ==
    /\ pc = "trades"
    /\ UNCHANGED others
    /\ \E fn \in IndicatorFns :
       \E r \in {Apply(fn, all_trades)} :
         /\ ind' = [fn |-> fn, trades |-> all_trades, ret |-> r]
         /\ exc' = r.exc
         /\ pc' = IF r.exc # "" THEN "indicator_raised" ELSE "indicator_returned"
    /\ UNCHANGED <<markets, mi, all_trades, trades_sorted, i, max_signal,
                   signal_timestamp, scanned, fsp_ret, result, results, sleeps,
                   report, effectiveness>>

\* the detector's analyze_market on a market whose trades these are
AnalyzeMarket ==
    /\ pc = "trades"
    /\ UNCHANGED others
    /\ \E market_id \in {"", "m1"} :
       \E r \in {DetectorAnalyzeMarket(market_id, all_trades)} :
         /\ markets' = <<market_id>>
         /\ result' = r.ret
         /\ exc' = r.exc
         /\ pc' = IF r.exc # "" THEN "analysis_raised" ELSE "analysis_returned"
    /\ UNCHANGED <<mi, all_trades, trades_sorted, i, max_signal,
                   signal_timestamp, scanned, fsp_ret, results, sleeps, report,
                   effectiveness, ind>>

NextInd ==
    \/ ApplyIndicator
    \/ AnalyzeMarket

SpecInd == InitInd /\ [][NextInd]_vars

----------------------------------------------------------------------------
(* Pure functions called on their own *)

\* every variable of the backtest run at rest, the program being at p
Idle(p) ==
    /\ pc = p
    /\ markets = <<>>
    /\ mi = 0
    /\ all_trades = <<>>
    /\ trades_sorted = <<>>
    /\ i = 0
    /\ max_signal = RZero
    /\ signal_timestamp = None
    /\ scanned = <<>>
    /\ fsp_ret = NoFsp
    /\ result = None
    /\ results = <<>>
    /\ sleeps = <<>>
    /\ report = NoReport
    /\ effectiveness = None
    /\ exc = ""
    /\ ind = NoInd

backtestVars == <<markets, mi, all_trades, trades_sorted, i, max_signal,
                  signal_timestamp, scanned, fsp_ret, result, results, sleeps,
                  report, effectiveness, exc, ind, resolution_metadata>>

botVars == <<seen_trade_ids, trade_log, fetched, cycles>>

\* what a called function hands back: its value, or the exception
Returned(v) == [exc |-> "", value |-> v]
Raised(e) == [exc |-> e, value |-> RZero]

\* the keys of the scores dict
ScoreKeys == {"concentration", "velocity", "skew", "movement", "whale"}

\* scores.get(key, 0)
ScoreGet(scores, key) == IF key \in DOMAIN scores THEN scores[key] ELSE RZero

\* the scores dict with every absent key read as 0
Filled(scores) == [key \in ScoreKeys |-> ScoreGet(scores, key)]

\* the detector's aggregator on a dict: scores['concentration'] and the
\* four other subscripts raise KeyError for an absent key
DetectorCalculate_NoNorm(scores) ==
    IF ScoreKeys \subseteq DOMAIN scores
    THEN Returned(RSum(<<scores.concentration, scores.velocity, scores.skew,
                         scores.movement, scores.whale>>))
    ELSE Raised("KeyError")
DetectorCalculate(scores) ==
    IF ScoreKeys \subseteq DOMAIN scores
    THEN Returned(DetectorProbability(scores))
    ELSE Raised("KeyError")

\* the backtester's aggregator on a dict: scores.get(key, 0) for the four
\* keys it reads
BacktestCalculate(scores) == Returned(BacktestProbability(Filled(scores)))

\* score dicts handed to the aggregators
ScoreValues == {RZero, Rat(5, 2), RInt(10)}

ScoreDicts == UNION {[keys -> ScoreValues] : keys \in SUBSET ScoreKeys}

\* Kalshi: calculate_skew(yes_price, no_price)
KalshiCalculateSkew(yes_price, no_price) ==
    IF yes_price + no_price = 0 THEN RZero
    ELSE RMul(RAbs(RSub(Rat(yes_price, yes_price + no_price), Rat(1, 2))), RInt(2))

\* Kalshi: suspicious_score = skew * 10
KalshiSuspiciousScore(yes_price, no_price) ==
    RMul(KalshiCalculateSkew(yes_price, no_price), RInt(10))

\* Manifold: calculate_skew(yes_prob)
ManifoldCalculateSkew_NoDouble(yes_prob) == RAbs(RSub(yes_prob, Rat(1, 2)))
ManifoldCalculateSkew(yes_prob) == RMul(RAbs(RSub(yes_prob, Rat(1, 2))), RInt(2))

\* Manifold: suspicious_score = min(skew * 10, 10.0)
ManifoldSuspiciousScore(yes_prob) ==
    RMin(RMul(ManifoldCalculateSkew(yes_prob), RInt(10)), RInt(10))

\* Manifold advanced: calculate_skew_score(yes_prob)
AdvancedSkewScore(yes_prob) ==
    RMin(RMul(RMul(RAbs(RSub(yes_prob, Rat(1, 2))), RInt(2)), RInt(10)), RInt(10))

\* quick scan: suspicious_score of the token prices, None for fewer than 2
\* prices or a zero total
QuickScanSuspiciousScore(prices) ==
    IF Len(prices) < 2 THEN None
    ELSE IF Sum(prices) = 0 THEN None
    ELSE Some(RMin(RMul(RAbs(RSub(Rat(SetMax({prices[k] : k \in 1..Len(prices)}),
                                      Sum(prices)),
                                  Rat(1, 2))),
                        RInt(20)),
                   RInt(10)))

Scanners == {"kalshi", "manifold", "manifold_advanced", "quick_scan"}

\* the score a scanner gives a market quoted at yes_price / no_price cents;
\* the Manifold scanners are handed the probability the prices amount to
ScannerScore(scanner, yes_price, no_price) ==
    CASE scanner = "kalshi" -> Some(KalshiSuspiciousScore(yes_price, no_price))
      [] scanner = "manifold" ->
            Some(ManifoldSuspiciousScore(Rat(yes_price, yes_price + no_price)))
      [] scanner = "manifold_advanced" ->
            Some(AdvancedSkewScore(Rat(yes_price, yes_price + no_price)))
      [] scanner = "quick_scan" -> QuickScanSuspiciousScore(<<yes_price, no_price>>)

\* quoted prices, in cents
QuoteGrid == {0, 1, 25, 50, 75, 99, 100}

\* outcome_volumes and address_volumes as the loops over the trades leave
\* them: the dict values in insertion order
OutcomeNames == <<"YES", "NO", "MAYBE", "OTHER", "NONE">>
VolumeGrid == {0, 25, 50, 100}
MaxOutcomes == 3
VolumeLists == UNION {[1..n -> VolumeGrid] : n \in 1..MaxOutcomes}

\* address volumes of a fixed total over up to MaxAddresses addresses
MaxAddresses == 3
TotalVolume == 6
AddressVolumeLists ==
    {v \in UNION {[1..n -> 0..TotalVolume] : n \in 1..MaxAddresses} :
        Sum(v) = TotalVolume}

\* volume d moved from address a to address b
Moved(vols, a, b, d) ==
    [k \in 1..Len(vols) |->
        IF k = a THEN vols[k] - d ELSE IF k = b THEN vols[k] + d ELSE vols[k]]

PureFns ==
    {"detector.calculate_insider_probability",
     "backtest.calculate_insider_probability",
     "detector.outcome_skew", "backtest.outcome_skew",
     "detector.position_concentration", "backtest.position_concentration"}

\* the function fn of the program applied to arg
CallFn(fn, arg) ==
    CASE fn = "detector.calculate_insider_probability" -> DetectorCalculate(arg)
      [] fn = "backtest.calculate_insider_probability" -> BacktestCalculate(arg)
      [] fn = "detector.outcome_skew" ->
            DetectorSkewOf(SubSeq(OutcomeNames, 1, Len(arg)), arg)
      [] fn = "backtest.outcome_skew" ->
            BacktestSkewOf(SubSeq(OutcomeNames, 1, Len(arg)), arg)
      [] fn = "detector.position_concentration" -> DetectorConcentrationOf(arg)
      [] fn = "backtest.position_concentration" -> BacktestConcentrationOf(arg)
      [] fn \in Scanners -> ScannerScore(fn, arg[1], arg[2])

InitCalc ==
    /\ Idle("calc")
    /\ OthersIdle

\* calculate_insider_probability of either implementation on a scores dict
CalculateInsiderProbability ==
    /\ pc = "calc"
    /\ \E fn \in {"detector.calculate_insider_probability",
                  "backtest.calculate_insider_probability"} :
       \E scores \in ScoreDicts :
         call' = [NoCall EXCEPT !.fn = fn, !.arg = scores,
                                !.ret = CallFn(fn, scores)]
    /\ pc' = "called"
    /\ UNCHANGED <<backtestVars, csvVars, botVars>>

\* one skew scanner scoring one two-sided market
ScanMarket ==
    /\ pc = "calc"
    /\ \E scanner \in Scanners :
       \E yes_price \in QuoteGrid :
       \E no_price \in QuoteGrid :
         /\ scanner \in {"manifold", "manifold_advanced"} => yes_price + no_price > 0
         /\ call' = [NoCall EXCEPT !.fn = scanner, !.arg = <<yes_price, no_price>>,
                                   !.ret = CallFn(scanner, <<yes_price, no_price>>)]
    /\ pc' = "called"
    /\ UNCHANGED <<backtestVars, csvVars, botVars>>

\* the outcome-skew computation on the summed outcome volumes
OutcomeSkew ==
    /\ pc = "calc"
    /\ \E fn \in {"detector.outcome_skew", "backtest.outcome_skew"} :
       \E vols \in VolumeLists :
         call' = [NoCall EXCEPT !.fn = fn, !.arg = vols, !.ret = CallFn(fn, vols)]
    /\ pc' = "called"
    /\ UNCHANGED <<backtestVars, csvVars, botVars>>

\* the concentration computation on the summed address volumes
PositionConcentration ==
    /\ pc = "calc"
    /\ \E fn \in {"detector.position_concentration",
                  "backtest.position_concentration"} :
       \E vols \in AddressVolumeLists :
         call' = [NoCall EXCEPT !.fn = fn, !.arg = vols, !.ret = CallFn(fn, vols)]
    /\ pc' = "called"
    /\ UNCHANGED <<backtestVars, csvVars, botVars>>

\* the same computation after volume has moved from one address to the
\* address with the largest share
MoveToLargest ==
    /\ pc = "called"
    /\ call.fn \in {"detector.position_concentration",
                    "backtest.position_concentration"}
    /\ \E a \in 1..Len(call.arg) :
       \E b \in 1..Len(call.arg) :
       \E d \in 1..TotalVolume :
         /\ a # b
         /\ d <= call.arg[a]
         /\ \A k \in 1..Len(call.arg) : call.arg[k] <= call.arg[b]
         /\ call' = [call EXCEPT !.arg = Moved(call.arg, a, b, d),
                                 !.ret = CallFn(call.fn, Moved(call.arg, a, b, d)),
                                 !.again = None,
                                 !.prev = Some(call.ret)]
    /\ UNCHANGED <<pc, backtestVars, csvVars, botVars>>

\* the same function called once more on the same argument
CallAgain ==
    /\ pc = "called"
    /\ call.fn \in PureFns
    /\ IsNone(call.again)
    /\ call' = [call EXCEPT !.again = Some(CallFn(call.fn, call.arg))]
    /\ UNCHANGED <<pc, backtestVars, csvVars, botVars>>

MaxResults == 3

\* the order of the keys of indicator_scores, as backtest_market builds it
IndicatorOrder == <<"Concentration", "Velocity", "Skew", "Whale">>

\* sorted(..., key=effectiveness_delta, reverse=True): a stable sort, so
\* an indicator goes behind those already placed whose delta is not smaller
RECURSIVE RankInsert(_, _, _)
RankInsert(indicator, ranked, eff) ==
    IF ranked = <<>> THEN <<indicator>>
    ELSE IF RLess(eff[Head(ranked)].effectiveness_delta,
                  eff[indicator].effectiveness_delta)
    THEN <<indicator>> \o ranked
    ELSE <<Head(ranked)>> \o RankInsert(indicator, Tail(ranked), eff)

RECURSIVE RankedFrom(_, _, _)
RankedFrom(k, ranked, eff) ==
    IF k > Len(IndicatorOrder) THEN ranked
    ELSE RankedFrom(k + 1, RankInsert(IndicatorOrder[k], ranked, eff), eff)

Ranked(eff) == RankedFrom(1, <<>>, eff)

\* the fields of a BacktestResult that analyze_indicator_effectiveness reads
ScoredResult(concentration, velocity, correct) ==
    [indicator_scores |-> [Concentration |-> concentration, Velocity |-> velocity,
                           Skew |-> RZero, Whale |-> RInt(10)],
     predicted_correctly |-> correct]

ScoredResults ==
    {ScoredResult(c, v, correct) :
        c \in {RZero, Rat(1, 4), RInt(1)}, v \in {RZero, RInt(1)},
        correct \in BOOLEAN}

ResultLists == UNION {[1..n -> ScoredResults] : n \in 1..MaxResults}

\* analyze_indicator_effectiveness on a non-empty list of results: the
\* returned dict and the printed ranking
AnalyzeEffectiveness ==
    /\ pc = "calc"
    /\ \E rs \in ResultLists :
       \E eff \in {IndicatorEffectiveness(rs)} :
         call' = [NoCall EXCEPT !.fn = "analyze_indicator_effectiveness",
                                !.arg = rs,
                                !.ret = [effectiveness |-> eff,
                                         ranked |-> Ranked(eff)]]
    /\ pc' = "called"
    /\ UNCHANGED <<backtestVars, csvVars, botVars>>

NextCalc ==
    \/ CalculateInsiderProbability
    \/ AnalyzeEffectiveness
    \/ ScanMarket
    \/ OutcomeSkew
    \/ PositionConcentration
    \/ MoveToLargest
    \/ CallAgain

SpecCalc == InitCalc /\ [][NextCalc]_vars

----------------------------------------------------------------------------
(* bot.py: run_bot *)

MaxCycles == 2
MaxBatch == 2

\* LARGE_TRADE_THRESHOLD, in cents times shares, and MAX_ACCOUNT_HISTORY
LargeTradeThreshold == 40000
MaxAccountHistory == 10

\* a trade as get_market_trades returns it; price in cents
BotTrade(id, hash, price, size, taker) ==
    [id |-> id, hash |-> hash, price |-> price, size |-> size, taker |-> taker]

\* trade.get('id') or f"{transactionHash}_{timestamp}"
TradeIdOf(trade) == IF trade.id # "" THEN trade.id ELSE trade.hash

BotTrades ==
    {BotTrade("t1", "", 50, 100, "u1"), BotTrade("t2", "", 10, 5000, "u2"),
     BotTrade("", "h3_7", BadStr, 100, "u1"), BotTrade("t1", "", 60, 10, "")}

\* what one polling cycle fetches, in the order the loops over markets,
\* tokens and trades visit it
Batches == SeqsUpTo(BotTrades, MaxBatch)

\* len(api.get_user_activity(taker))
ActivityCounts == {5, 11}

\* the row written for a trade, with the id it was written for
LogRow(trade, trade_count, flag) ==
    [id |-> TradeIdOf(trade), price |-> trade.price, size |-> trade.size,
     value |-> trade.price * trade.size, user |-> trade.taker,
     user_trade_count |-> trade_count, flag |-> flag]

\* lines 81-99: the row of a trade whose analysed user has trade_count
\* trades of history
AnalysedRow(trade, trade_count) ==
    IF trade.price * trade.size > LargeTradeThreshold /\ trade.taker # ""
    THEN LogRow(trade, trade_count,
                IF trade_count <= MaxAccountHistory
                THEN (IF trade.price < 20 THEN "CONTRARIAN_INSIDER"
                      ELSE "FRESH_INSIDER")
                ELSE "")
    ELSE LogRow(trade, 0 - 1, "")

InitBot ==
    /\ Idle("run_bot")
    /\ OthersIdle

\* run_bot up to the loop
StartBot ==
    /\ pc = "run_bot"
    /\ seen_trade_ids' = {}
    /\ pc' = "cycle"
    /\ UNCHANGED <<backtestVars, csvVars, call, trade_log, fetched, cycles>>

\* the top of the loop: the markets and their trades are fetched
StartCycle ==
    /\ pc = "cycle"
    /\ cycles < MaxCycles
    /\ cycles' = cycles + 1
    /\ \E batch \in Batches : fetched' = batch
    /\ pc' = "trades"
    /\ UNCHANGED <<backtestVars, csvVars, call, seen_trade_ids, trade_log>>

\* if trade_id in seen_trade_ids
AlreadySeen_Never(trade_id, seen) == FALSE
AlreadySeen(trade_id, seen) == trade_id \in seen

\* where "except Exception" leaves the program: after the sleep, at the top
\* of "while True"
AfterException_Stop == "stopped"
AfterException == "cycle"

\* the body of "for trade in trades" for the next fetched trade
HandleTrade ==
    /\ pc = "trades"
    /\ fetched # <<>>
    /\ IF AlreadySeen(TradeIdOf(Head(fetched)), seen_trade_ids)
       THEN /\ fetched' = Tail(fetched)
            /\ UNCHANGED <<pc, seen_trade_ids, trade_log>>
       ELSE /\ seen_trade_ids' = seen_trade_ids \cup {TradeIdOf(Head(fetched))}
            /\ IF FloatRaises(Head(fetched).price) \/ FloatRaises(Head(fetched).size)
               THEN \* except Exception: the cycle is abandoned, then the sleep
                    /\ fetched' = <<>>
                    /\ pc' = AfterException
                    /\ UNCHANGED trade_log
               ELSE /\ \E trade_count \in ActivityCounts :
                         trade_log' =
                             Append(trade_log, AnalysedRow(Head(fetched), trade_count))
                    /\ fetched' = Tail(fetched)
                    /\ UNCHANGED pc
    /\ UNCHANGED <<backtestVars, csvVars, call, cycles>>

\* the loops are through: time.sleep(CHECK_INTERVAL)
EndCycle ==
    /\ pc = "trades"
    /\ fetched = <<>>
    /\ pc' = "cycle"
    /\ UNCHANGED <<backtestVars, csvVars, others>>

\* KeyboardInterrupt
Interrupt ==
    /\ pc \in {"cycle", "trades"}
    /\ pc' = "stopped"
    /\ fetched' = <<>>
    /\ UNCHANGED <<backtestVars, csvVars, call, seen_trade_ids, trade_log, cycles>>

NextBot ==
    \/ StartBot
    \/ StartCycle
    \/ HandleTrade
    \/ EndCycle
    \/ Interrupt

SpecBot == InitBot /\ [][NextBot]_vars

\* the bot is one sequential loop: whatever step it is at is taken in the end;
\* only the KeyboardInterrupt is left to the outside
SpecBotLive ==
    /\ SpecBot
    /\ WF_vars(StartBot)
    /\ WF_vars(StartCycle)
    /\ WF_vars(HandleTrade)
    /\ WF_vars(EndCycle)

----------------------------------------------------------------------------
(* all_trades.csv, written by bot.py and by backtest.py *)

MaxRows == 2

\* the header row, and the n-th data row that a program writes
Header == [by |-> "header", n |-> 0]
DataRow(by, n) == [by |-> by, n |-> n]

\* os.path.exists(DATA_FILE)
Exists(file) == ~IsNone(file)

\* open(DATA_FILE, 'w'): the file is created, or truncated
OpenW(file) == Some(<<>>)

\* open(DATA_FILE, 'a'): the file is created when there is none
OpenA(file) == IF IsNone(file) THEN Some(<<>>) ELSE file

\* closing a file opened with 'a': the buffered rows go to the end of the file
FlushA(file, rows) == Some((IF IsNone(file) THEN <<>> ELSE Val(file)) \o rows)

\* closing the file opened with 'w': the header goes to offset 0, over the
\* first row if another program has appended one since the file was opened
FlushW(file) ==
    IF IsNone(file) \/ Val(file) = <<>> THEN Some(<<Header>>)
    ELSE Some(<<Header>> \o Tail(Val(file)))

\* the file before either program runs: absent, or left by an earlier run
InitCsv ==
    /\ Idle("csv")
    /\ call = NoCall
    /\ seen_trade_ids = {}
    /\ trade_log = <<>>
    /\ fetched = <<>>
    /\ cycles = 0
    /\ resolution_metadata = [resolutionSource |-> None, resolvedBy |-> None,
                              resolvedTime |-> AbsentNum]
    /\ data_file \in {None, Some(<<Header>>), Some(<<Header, DataRow("earlier", 1)>>)}
    /\ writers = [bot |-> [pc |-> "init_csv", rows |-> 0],
                  backtest |-> [pc |-> "check", rows |-> 0, file_exists |-> FALSE]]

\* bot.py init_csv: if not os.path.exists(DATA_FILE)
BotInitCheck ==
    /\ writers.bot.pc = "init_csv"
    /\ writers' = [writers EXCEPT
                      !.bot.pc = IF Exists(data_file) THEN "log" ELSE "init_open"]
    /\ UNCHANGED <<pc, backtestVars, botVars, call, data_file>>

\* bot.py init_csv: open(DATA_FILE, 'w')
BotInitOpen ==
    /\ writers.bot.pc = "init_open"
    /\ data_file' = OpenW(data_file)
    /\ writers' = [writers EXCEPT !.bot.pc = "init_write"]
    /\ UNCHANGED <<pc, backtestVars, botVars, call>>

\* bot.py init_csv: the header is written and the file closed
BotInitWrite ==
    /\ writers.bot.pc = "init_write"
    /\ data_file' = FlushW(data_file)
    /\ writers' = [writers EXCEPT !.bot.pc = "log"]
    /\ UNCHANGED <<pc, backtestVars, botVars, call>>

\* bot.py log_trade_to_csv: open(DATA_FILE, 'a')
BotLogOpen ==
    /\ writers.bot.pc = "log"
    /\ writers.bot.rows < MaxRows
    /\ data_file' = OpenA(data_file)
    /\ writers' = [writers EXCEPT !.bot.pc = "log_write"]
    /\ UNCHANGED <<pc, backtestVars, botVars, call>>

\* bot.py log_trade_to_csv: the row is written and the file closed
BotLogWrite ==
    /\ writers.bot.pc = "log_write"
    /\ data_file' = FlushA(data_file, <<DataRow("bot", writers.bot.rows + 1)>>)
    /\ writers' = [writers EXCEPT !.bot.pc = "log", !.bot.rows = @ + 1]
    /\ UNCHANGED <<pc, backtestVars, botVars, call>>

\* backtest.py log_trade_to_csv: file_exists = os.path.exists(DATA_FILE)
BacktestLogCheck ==
    /\ writers.backtest.pc = "check"
    /\ writers.backtest.rows < MaxRows
    /\ writers' = [writers EXCEPT !.backtest.pc = "open",
                                  !.backtest.file_exists = Exists(data_file)]
    /\ UNCHANGED <<pc, backtestVars, botVars, call, data_file>>

\* backtest.py log_trade_to_csv: open(DATA_FILE, 'a')
BacktestLogOpen ==
    /\ writers.backtest.pc = "open"
    /\ data_file' = OpenA(data_file)
    /\ writers' = [writers EXCEPT !.backtest.pc = "write"]
    /\ UNCHANGED <<pc, backtestVars, botVars, call>>

\* backtest.py log_trade_to_csv: the header, if the file did not exist, and
\* the row are written and the file closed
BacktestLogWrite ==
    /\ writers.backtest.pc = "write"
    /\ data_file' =
           FlushA(data_file,
                  (IF writers.backtest.file_exists THEN <<>> ELSE <<Header>>)
                      \o <<DataRow("backtest", writers.backtest.rows + 1)>>)
    /\ writers' = [writers EXCEPT !.backtest.pc = "check", !.backtest.rows = @ + 1]
    /\ UNCHANGED <<pc, backtestVars, botVars, call>>

NextCsv ==
    \/ BotInitCheck
    \/ BotInitOpen
    \/ BotInitWrite
    \/ BotLogOpen
    \/ BotLogWrite
    \/ BacktestLogCheck
    \/ BacktestLogOpen
    \/ BacktestLogWrite

SpecCsv == InitCsv /\ [][NextCsv]_vars

----------------------------------------------------------------------------
(* Properties *)

\* C1: every indicator, in the detector and in the backtester, returns a
\* score in [0, 10] inclusive.
C1_ScoreBounded ==
    pc = "indicator_returned" =>
        /\ RLeq(RZero, ind.ret.score)
        /\ RLeq(ind.ret.score, RInt(10))

\* the backtester's whale indicator on more than 10 trades of one address
\* whose position, above 10000, is capped to the score 10
C1_Witness ==
    /\ pc = "indicator_returned"
    /\ ind.fn = "backtest.whale"
    /\ Len(ind.trades) > 10
    /\ ind.ret.score = RInt(10)

\* C2: find_signal_point returns a pair whose components are both null or
\* both non-null, and (null, null) for fewer than 10 trades.
C2_NoMixedPair ==
    pc = "signal" =>
        /\ IsNone(fsp_ret.timestamp) <=> IsNone(fsp_ret.probability)
        /\ Len(all_trades) < 10 => fsp_ret = NoFsp

\* the prefix lengths whose aggregate find_signal_point has computed
ScannedLens == {scanned[k].len : k \in 1..Len(scanned)}

\* C3, as stated: every prefix length from 10 up to and including
\* len(trades) is evaluated, so a list of exactly 10 trades with a positive
\* aggregate yields a signal.
C3_FullListIsCandidate ==
    (pc = "signal" /\ Len(all_trades) >= 10) =>
        ScannedLens = 10..Len(all_trades)

\* C3, amended: the evaluated prefix lengths are exactly 10 .. len(trades) - 1,
\* in this order; the full list is not a candidate and a list of exactly 10
\* trades yields no signal timestamp.
C3_PrefixRange ==
    (pc = "signal" /\ Len(all_trades) >= 10) =>
        /\ Len(scanned) = Len(all_trades) - 10
        /\ \A k \in 1..Len(scanned) : scanned[k].len = 9 + k
        /\ Len(all_trades) = 10 => IsNone(fsp_ret.timestamp)

C3_Witness ==
    /\ pc = "signal"
    /\ Len(all_trades) = 12
    /\ Len(scanned) = 2
    /\ ~IsNone(fsp_ret.timestamp)

\* prefix number k of the scan has the maximal aggregate, and it is positive
IsMaxPrefix(k) ==
    /\ k \in 1..Len(scanned)
    /\ RLess(RZero, scanned[k].signal)
    /\ \A j \in 1..Len(scanned) : RLeq(scanned[j].signal, scanned[k].signal)

\* C4, as stated: the returned timestamp is that of the last trade of a
\* maximising prefix (sorted index i - 1), and the probability is the maximum.
C4_LastTradeOfPrefix ==
    (pc = "signal" /\ ~IsNone(fsp_ret.timestamp)) =>
        \E k \in 1..Len(scanned) :
            /\ IsMaxPrefix(k)
            /\ Val(fsp_ret.probability) = scanned[k].signal
            /\ Val(fsp_ret.timestamp) = TsKey(trades_sorted[scanned[k].len])

\* C4, amended: the returned timestamp is that of the first trade after a
\* maximising prefix (sorted index i), and the probability is the maximum.
C4_TradeAfterPrefix ==
    (pc = "signal" /\ ~IsNone(fsp_ret.timestamp)) =>
        \E k \in 1..Len(scanned) :
            /\ IsMaxPrefix(k)
            /\ Val(fsp_ret.probability) = scanned[k].signal
            /\ Val(fsp_ret.timestamp) = TsKey(trades_sorted[scanned[k].len + 1])

\* a signal whose prefix ends at a trade of another time than the trade
\* after it
C4_Witness ==
    /\ pc = "signal"
    /\ ~IsNone(fsp_ret.timestamp)
    /\ \A k \in 1..Len(scanned) :
          IsMaxPrefix(k) =>
              TsKey(trades_sorted[scanned[k].len])
                  # TsKey(trades_sorted[scanned[k].len + 1])

FirstMaxPrefix == CHOOSE k \in 1..Len(scanned) :
    IsMaxPrefix(k) /\ \A j \in 1..(k - 1) : ~IsMaxPrefix(j)

\* C5: among prefixes of equal maximal aggregate the first one scanned is
\* the one reported.
C5_FirstMaxWins ==
    (pc = "signal" /\ ~IsNone(fsp_ret.timestamp)) =>
        /\ \E k \in 1..Len(scanned) : IsMaxPrefix(k)
        /\ Val(fsp_ret.timestamp) =
               TsKey(trades_sorted[scanned[FirstMaxPrefix].len + 1])

\* two prefixes tie at the maximum and the trades after them differ in time
C5_Witness ==
    /\ pc = "signal"
    /\ ~IsNone(fsp_ret.timestamp)
    /\ \E k1, k2 \in 1..Len(scanned) :
          /\ k1 < k2
          /\ IsMaxPrefix(k1)
          /\ IsMaxPrefix(k2)
          /\ TsKey(trades_sorted[scanned[k1].len + 1])
                 # TsKey(trades_sorted[scanned[k2].len + 1])

\* a trade before the signal timestamp lies within 300 seconds of it
PreResolvable ==
    \E k \in 1..Len(all_trades) :
        /\ TsKey(all_trades[k]) < Val(fsp_ret.timestamp)
        /\ Val(fsp_ret.timestamp) - TsKey(all_trades[k]) < 300

\* a trade lies within 300 seconds of the signal timestamp + 3600
PostResolvable ==
    \E k \in 1..Len(all_trades) :
        /\ TsKey(all_trades[k]) - (Val(fsp_ret.timestamp) + 3600) < 300
        /\ (Val(fsp_ret.timestamp) + 3600) - TsKey(all_trades[k]) < 300

\* C6: backtest_market returns null whenever the pre-signal price or the
\* post-signal price has no trade within 300 seconds to be resolved from.
C6_NullWhenPriceUnresolved ==
    (pc = "loop" /\ ~IsNone(fsp_ret.timestamp)
       /\ (~PreResolvable \/ ~PostResolvable)) =>
        IsNone(result)

\* a signal with a trade shortly before it and none an hour later
C6_Witness ==
    /\ pc = "loop"
    /\ ~IsNone(fsp_ret.timestamp)
    /\ PreResolvable
    /\ ~PostResolvable
    /\ IsNone(result)

\* C7: a result of an unresolved market does not assert predicted_correctly
\* as false.
C7_UnknownWhenUnresolved ==
    \A k \in 1..Len(results) :
        ~results[k].market_resolved => results[k].predicted_correctly # FALSE

\* the results of resolved markets
Resolved(rs) == SelectSeq(rs, LAMBDA r : r.market_resolved)

\* C8: the accuracy of print_backtest_results and the groups of
\* analyze_indicator_effectiveness count the results of resolved markets
\* only.
C8_ConsumersCheckResolved ==
    /\ (report.printed /\ Resolved(results) # <<>>) =>
          report.accuracy =
              Rat(Len(SelectSeq(Resolved(results), LAMBDA r : r.predicted_correctly))
                    * 100,
                  Len(Resolved(results)))
    /\ ~IsNone(effectiveness) =>
          \A indicator \in IndicatorNames :
              Val(effectiveness)[indicator].frequency_in_correct
                + Val(effectiveness)[indicator].frequency_in_incorrect
                  = Len(Resolved(results))

\* C9: no indicator and no analyze_market call leaves by an exception.
C9_NeverRaises ==
    pc \in {"indicator_returned", "indicator_raised", "analysis_returned",
            "analysis_raised"} => exc = ""

\* a trade with a missing or non-numeric size, price or timestamp, or
\* without an address
Malformed(t) ==
    \/ t.size \in {BadStr, AbsentNum}
    \/ t.price \in {BadStr, AbsentNum}
    \/ t.timestamp \in {BadStr, AbsentNum}
    \/ t.maker = NoMaker

Without(s, k) == SubSeq(s, 1, k - 1) \o SubSeq(s, k + 1, Len(s))

\* C10: an indicator called on a batch with a single malformed trade returns
\* what it returns on the batch without that trade.
C10_MalformedSkipped ==
    pc \in {"indicator_returned", "indicator_raised"} =>
        \A k \in 1..Len(ind.trades) :
            (/\ Malformed(ind.trades[k])
             /\ \A j \in 1..Len(ind.trades) : j # k => ~Malformed(ind.trades[j]))
            => ind.ret = Apply(ind.fn, Without(ind.trades, k))

AggregatorFns ==
    {"detector.calculate_insider_probability",
     "backtest.calculate_insider_probability"}

WeightedFormula(scores) ==
    RMin(RDiv(RAdd(RAdd(RAdd(RMul(Rat(1, 4), scores.concentration),
                             RMul(Rat(3, 20), scores.velocity)),
                        RAdd(RMul(Rat(1, 5), scores.skew),
                             RMul(Rat(3, 20), scores.movement))),
                   RMul(Rat(1, 4), scores.whale)),
              RInt(10)),
         RInt(1))

\* C12: given the same five scores both aggregators return the value of the
\* five-term weighted formula.
C12_SameFormula ==
    (call.fn \in AggregatorFns /\ ScoreKeys \subseteq DOMAIN call.arg) =>
        /\ call.ret = Returned(WeightedFormula(call.arg))
        /\ DetectorCalculate(call.arg) = BacktestCalculate(call.arg)

\* C13: an aggregator handed a dict without some score returns what it
\* returns with 0 in that score's place.
C13_AbsentIsZero ==
    call.fn \in AggregatorFns =>
        /\ call.ret.exc = ""
        /\ call.ret = CallFn(call.fn, Filled(call.arg))

SkewFns == {"detector.outcome_skew", "backtest.outcome_skew"}

\* the volume is split evenly between exactly two outcomes
EvenSplit(vols) ==
    \E a, b \in 1..Len(vols) :
        /\ a # b
        /\ vols[a] > 0
        /\ vols[a] = vols[b]
        /\ \A k \in 1..Len(vols) : k \notin {a, b} => vols[k] = 0

\* one outcome holds all of a positive volume
AllOnOne(vols) ==
    \E a \in 1..Len(vols) :
        /\ vols[a] > 0
        /\ \A k \in 1..Len(vols) : k # a => vols[k] = 0

\* C15, as stated: the skew score is 0 exactly when the volume is split
\* 50/50 between exactly two outcomes, and 10 when it is split 100/0.
C15_ZeroIffEvenSplit ==
    (call.fn \in SkewFns /\ call.ret.exc = "") =>
        /\ call.ret.score = RZero <=> EvenSplit(call.arg)
        /\ AllOnOne(call.arg) => call.ret.score = RInt(10)

\* C15, amended: for a positive total volume the skew score is 0 exactly
\* when the largest outcome holds half of the volume, and 10 when one
\* outcome holds all of it.
C15_ZeroIffLargestIsHalf ==
    (call.fn \in SkewFns /\ call.ret.exc = "" /\ Sum(call.arg) > 0) =>
        /\ call.ret.score = RZero <=>
              (\E a \in 1..Len(call.arg) :
                  /\ 2 * call.arg[a] = Sum(call.arg)
                  /\ \A k \in 1..Len(call.arg) : call.arg[k] <= call.arg[a])
        /\ AllOnOne(call.arg) => call.ret.score = RInt(10)

\* three outcomes at 50/25/25 score 0
C15_Witness ==
    /\ call.fn \in SkewFns
    /\ call.arg = <<50, 25, 25>>
    /\ call.ret.exc = ""
    /\ call.ret.score = RZero

ConcentrationFns ==
    {"detector.position_concentration", "backtest.position_concentration"}

\* C16: moving volume from any address to the address with the largest
\* share never lowers the concentration score, which is 10/N for N addresses
\* of equal volume and 10 for a single owner.
C16_MonotoneTowardSingleOwner ==
    (call.fn \in ConcentrationFns /\ call.ret.exc = "") =>
        /\ ~IsNone(call.prev) => RLeq(Val(call.prev).score, call.ret.score)
        /\ RLeq(Rat(10, Len(call.arg)), call.ret.score)
        /\ RLeq(call.ret.score, RInt(10))
        /\ (\A k \in 1..Len(call.arg) : call.arg[k] = call.arg[1]) =>
              call.ret.score = Rat(10, Len(call.arg))
        /\ AllOnOne(call.arg) => call.ret.score = RInt(10)

\* three addresses: from the uniform split, score 10/3, to a higher score
C16_Witness ==
    /\ call.fn \in ConcentrationFns
    /\ Len(call.arg) = 3
    /\ ~IsNone(call.prev)
    /\ Val(call.prev).score = Rat(10, 3)
    /\ RLess(Val(call.prev).score, call.ret.score)

\* the ids of the rows of the trade log
LoggedIds == {trade_log[k].id : k \in 1..Len(trade_log)}

\* C17: across the polling cycles no trade id is written to the trade log
\* more than once, and the seen-id set only grows.
C17_NeverCountedAgain ==
    /\ [](\A j, k \in 1..Len(trade_log) :
             trade_log[j].id = trade_log[k].id => j = k)
    /\ [][seen_trade_ids \subseteq seen_trade_ids']_vars

\* a second cycle meets a trade id that the first cycle logged
C17_Witness ==
    /\ pc = "trades"
    /\ cycles = 2
    /\ fetched # <<>>
    /\ TradeIdOf(Head(fetched)) \in LoggedIds

\* a finished backtest_market call that returned a BacktestResult
Reported == pc = "loop" /\ ~IsNone(result)

AtOrBefore(trades, ts) == SelectSeq(trades, LAMBDA t : TsKey(t) <= ts)

StrictlyBefore(trades, ts) == SelectSeq(trades, LAMBDA t : TsKey(t) < ts)

RoundedScores(ws) ==
    [Concentration |-> Round(ws.scores.concentration, 100),
     Velocity |-> Round(ws.scores.velocity, 100),
     Skew |-> Round(ws.scores.skew, 100),
     Whale |-> Round(ws.scores.whale, 100)]

\* the result reports exactly what the given partition yields
ReportsPartition(r, before) ==
    /\ r.trades_analyzed = Len(before)
    /\ r.indicator_scores = RoundedScores(WindowScores(before))
    /\ r.outcome_prediction = OutcomePrediction(WindowScores(before).details)

\* C18 as stated: the partition behind the reported indicator scores, the
\* outcome prediction and trades_analyzed holds every trade at or before the
\* signal timestamp, the trade at the signal timestamp included.
C18_AtOrBeforePartition ==
    Reported =>
        ReportsPartition(Val(result),
                         AtOrBefore(all_trades, Val(result).signal_timestamp))

\* C18, amended: the partition behind the reported indicator scores, the
\* outcome prediction and trades_analyzed holds the trades strictly before the
\* signal timestamp; a trade at the signal timestamp is not part of it.
C18_StrictlyBeforePartition ==
    Reported =>
        ReportsPartition(Val(result),
                         StrictlyBefore(all_trades, Val(result).signal_timestamp))

\* a result whose signal timestamp is the timestamp of two trades, with
\* trades on both sides of it
C18_Witness ==
    /\ Reported
    /\ Val(result).trades_analyzed >= 10
    /\ Val(result).trades_analyzed + 2 < Len(all_trades)
    /\ Len(AtOrBefore(all_trades, Val(result).signal_timestamp))
           = Val(result).trades_analyzed + 2

\* p is the price of a trade of the list that is within 300 seconds of ts and
\* no farther from it than any other trade of the list
IsNearestPrice(p, trades, ts) ==
    \E k \in 1..Len(trades) :
        /\ Abs(TsKey(trades[k]) - ts) < 300
        /\ PriceOf(trades[k]) = p
        /\ \A j \in 1..Len(trades) :
               Abs(TsKey(trades[k]) - ts) <= Abs(TsKey(trades[j]) - ts)

\* C19 as stated: preSignalPrice is the price of the trade nearest to the
\* signal timestamp among all the market's trades within 300 seconds of it,
\* and postSignalPrice that of the trade nearest to signal timestamp + 3600.
C19_NearestAmongAllTrades ==
    Reported =>
        /\ IsNearestPrice(Val(result).pre_signal_price, all_trades,
                          Val(result).signal_timestamp)
        /\ IsNearestPrice(Val(result).post_signal_price, all_trades,
                          Val(result).signal_timestamp + 3600)

\* C19, amended: preSignalPrice is the price of the nearest trade among the
\* trades strictly before the signal timestamp and within 300 seconds of it;
\* postSignalPrice is the price of the nearest trade among all the market's
\* trades within 300 seconds of signal timestamp + 3600.
C19_PreAmongEarlierTrades ==
    Reported =>
        /\ IsNearestPrice(Val(result).pre_signal_price,
                          StrictlyBefore(all_trades, Val(result).signal_timestamp),
                          Val(result).signal_timestamp)
        /\ IsNearestPrice(Val(result).post_signal_price, all_trades,
                          Val(result).signal_timestamp + 3600)

\* a result whose pre-signal price differs from the price of the trade at the
\* signal timestamp, and whose pre-signal and post-signal windows each hold
\* trades at two distances with different prices
C19_Witness ==
    /\ Reported
    /\ \E j, k \in 1..Len(all_trades) :
           /\ TsKey(all_trades[j]) < TsKey(all_trades[k])
           /\ TsKey(all_trades[k]) < Val(result).signal_timestamp
           /\ Val(result).signal_timestamp - TsKey(all_trades[j]) < 300
           /\ PriceOf(all_trades[j]) # PriceOf(all_trades[k])
    /\ \E k \in 1..Len(all_trades) :
           /\ TsKey(all_trades[k]) = Val(result).signal_timestamp
           /\ PriceOf(all_trades[k]) # Val(result).pre_signal_price
    /\ \E j, k \in 1..Len(all_trades) :
           /\ Abs(TsKey(all_trades[j]) - (Val(result).signal_timestamp + 3600)) < 300
           /\ Abs(TsKey(all_trades[k]) - (Val(result).signal_timestamp + 3600)) < 300
           /\ Abs(TsKey(all_trades[j]) - (Val(result).signal_timestamp + 3600))
                  < Abs(TsKey(all_trades[k]) - (Val(result).signal_timestamp + 3600))
           /\ PriceOf(all_trades[j]) # PriceOf(all_trades[k])

HasSource == ~IsNone(resolution_metadata.resolutionSource)

NamesOutcome ==
    /\ ~IsNone(resolution_metadata.resolvedBy)
    /\ Val(resolution_metadata.resolvedBy) # ""

PredictionMatches(r) ==
    /\ ~IsNone(resolution_metadata.resolvedBy)
    /\ r.outcome_prediction = Val(resolution_metadata.resolvedBy)

\* (resolvedTime - signalTimestamp) / 3600, resolvedTime read as
\* signalTimestamp + 86400 when the metadata has none
HoursToResolution(r) ==
    Rat(Get(resolution_metadata.resolvedTime, r.signal_timestamp + 86400)
            - r.signal_timestamp, 3600)

\* C20 as stated: marketResolved is true exactly when the metadata has a
\* resolutionSource, and whenever marketResolved is true predictedCorrectly is
\* (outcomePrediction = actualOutcome) and timeToResolutionHours is set to
\* (resolvedTime - signalTimestamp) / 3600.
C20_SetWheneverResolved ==
    Reported =>
        /\ Val(result).market_resolved <=> HasSource
        /\ Val(result).market_resolved =>
               /\ Val(result).predicted_correctly <=> PredictionMatches(Val(result))
               /\ Val(result).time_to_resolution_hours
                      = Some(HoursToResolution(Val(result)))

\* C20, amended: marketResolved is true exactly when the metadata has a
\* resolutionSource; when it is true and the metadata names an actual outcome
\* (resolvedBy), predictedCorrectly is (outcomePrediction = actualOutcome) and
\* timeToResolutionHours is (resolvedTime - signalTimestamp) / 3600 with
\* resolvedTime read as signalTimestamp + 86400 when absent; when it is true
\* and no actual outcome is named, timeToResolutionHours stays null.
C20_SetWhenOutcomeNamed ==
    Reported =>
        /\ Val(result).market_resolved <=> HasSource
        /\ Val(result).actual_outcome = resolution_metadata.resolvedBy
        /\ (Val(result).market_resolved /\ NamesOutcome) =>
               /\ Val(result).predicted_correctly <=> PredictionMatches(Val(result))
               /\ Val(result).time_to_resolution_hours
                      = Some(HoursToResolution(Val(result)))
        /\ (Val(result).market_resolved /\ ~NamesOutcome) =>
               IsNone(Val(result).time_to_resolution_hours)

\* a resolved market whose named outcome is not the predicted one and whose
\* metadata has no resolvedTime
C20_Witness ==
    /\ Reported
    /\ Val(result).market_resolved
    /\ NamesOutcome
    /\ ~Val(result).predicted_correctly
    /\ resolution_metadata.resolvedTime = AbsentNum
    /\ Val(result).time_to_resolution_hours = Some(Rat(24, 1))

\* the markets of the batch whose iteration of the loop is complete
Processed ==
    IF pc = "main" THEN 0
    ELSE IF pc \in {"backtest_market", "find_signal_point", "scan", "signal",
                    "loop", "raised"} \/ exc # ""
    THEN mi - 1
    ELSE mi

\* the 10th, 20th, ... of the first n markets
PausePoints(n) == [k \in 1..(n \div 10) |-> 10 * k]

\* C21: run_backtest takes the markets in list order; a null result is skipped
\* and the next market is still processed; the result list receives exactly
\* the non-null results, in the order of their markets; the rate-limit pause
\* is taken after the 10th, 20th, ... market, skipped ones counted, and at no
\* other point.
C21_BatchInOrder ==
    /\ [](sleeps = PausePoints(Processed))
    /\ []((pc = "returned" /\ markets # <<>>) => mi = Len(markets))
    /\ [][(pc = "loop" /\ mi < Len(markets)) =>
              (pc' = "backtest_market" /\ mi' = mi + 1)]_vars
    /\ [][results' = IF pc = "loop" /\ ~IsNone(result)
                     THEN Append(results, Val(result))
                     ELSE results]_vars
    /\ [][markets' = markets \/ pc = "main"]_vars

\* a batch of more than ten markets has returned: the 10th market was skipped
\* with a null result, the pause followed it, and the 11th market was still
\* processed and is the only result
C21_Witness ==
    /\ pc = "returned"
    /\ Len(markets) > 10
    /\ sleeps = <<10>>
    /\ ~IsNone(result)
    /\ results = <<Val(result)>>

Analysed == pc = "called" /\ call.fn = "analyze_indicator_effectiveness"

CorrectScores(rs, indicator) ==
    IndicatorScores(SelectSeq(rs, LAMBDA r : r.predicted_correctly), indicator)

IncorrectScores(rs, indicator) ==
    IndicatorScores(SelectSeq(rs, LAMBDA r : ~r.predicted_correctly), indicator)

\* mean over the correct results minus mean over the incorrect ones, and 0
\* when either group is empty
MeanDifference(rs, indicator) ==
    IF CorrectScores(rs, indicator) # <<>> /\ IncorrectScores(rs, indicator) # <<>>
    THEN RSub(Mean(CorrectScores(rs, indicator)), Mean(IncorrectScores(rs, indicator)))
    ELSE RZero

\* the ranking lists every indicator once, by non-increasing delta
RankedDescending(ret) ==
    /\ Len(ret.ranked) = Cardinality(IndicatorNames)
    /\ {ret.ranked[k] : k \in 1..Len(ret.ranked)} = IndicatorNames
    /\ \A j, k \in 1..Len(ret.ranked) :
           j < k => RLeq(ret.effectiveness[ret.ranked[k]].effectiveness_delta,
                         ret.effectiveness[ret.ranked[j]].effectiveness_delta)

\* C22 as stated: for each indicator effectivenessDelta is the mean score over
\* the correctly predicted results minus the mean over the incorrectly
\* predicted ones when both groups are non-empty, and 0 otherwise; the
\* indicators are ranked by delta, descending.
C22_DeltaIsMeanDifference ==
    Analysed =>
        /\ \A indicator \in IndicatorNames :
               call.ret.effectiveness[indicator].effectiveness_delta
                   = MeanDifference(call.arg, indicator)
        /\ RankedDescending(call.ret)

\* C22, amended: effectivenessDelta is that difference rounded to two
\* decimals (ties to even), and 0 when either group is empty; the indicators
\* are ranked by the rounded delta, descending.
C22_DeltaIsRoundedMeanDifference ==
    Analysed =>
        /\ \A indicator \in IndicatorNames :
               call.ret.effectiveness[indicator].effectiveness_delta
                   = Round(MeanDifference(call.arg, indicator), 100)
        /\ RankedDescending(call.ret)

\* three results: one group is empty for no indicator, the concentration
\* difference has three decimals, and the ranking is not the key order
C22_Witness ==
    /\ Analysed
    /\ Len(call.arg) = 3
    /\ CorrectScores(call.arg, "Concentration") # <<>>
    /\ IncorrectScores(call.arg, "Concentration") # <<>>
    /\ MeanDifference(call.arg, "Concentration")
           # Round(MeanDifference(call.arg, "Concentration"), 100)
    /\ call.ret.ranked # IndicatorOrder

WellFormed(trades) == \A k \in 1..Len(trades) : ~Malformed(trades[k])

Timestamps(trades) == {TsKey(trades[k]) : k \in 1..Len(trades)}

FirstTimestamp(trades) ==
    CHOOSE a \in Timestamps(trades) : \A b \in Timestamps(trades) : a <= b

LastTimestamp(trades) ==
    CHOOSE a \in Timestamps(trades) : \A b \in Timestamps(trades) : b <= a

\* count / max(timeSpanHours, 0.1) with timeSpanHours = (last - first) / 3600
StatedTradesPerHour(trades) ==
    RDiv(RInt(Len(trades)),
         RMax(Rat(LastTimestamp(trades) - FirstTimestamp(trades), 3600), Rat(1, 10)))

\* C23: on two or more trades the velocity indicator scores
\* min(tradesPerHour / 10, 10) with tradesPerHour = count / max(span, 0.1) and
\* span = (last timestamp - first timestamp) / 3600 hours, so that the divisor
\* is 0.1 when all the trades share one timestamp.
C23_VelocityFormula ==
    (/\ pc = "indicator_returned"
     /\ ind.fn \in {"detector.velocity", "backtest.velocity"}
     /\ Len(ind.trades) >= 2
     /\ WellFormed(ind.trades))
    => ind.ret.score
           = RMin(RDiv(StatedTradesPerHour(ind.trades), RInt(10)), RInt(10))

\* the trades that carry a usable price: a positive number
UsablePrices(trades) == {k \in 1..Len(trades) : trades[k].price > 0}

\* C24: the price-movement indicator returns the score 0 whenever fewer than
\* three of the trades carry a usable price, however many trades there are.
C24_ZeroBelowThreePrices ==
    (/\ pc = "indicator_returned"
     /\ ind.fn = "detector.movement"
     /\ Cardinality(UsablePrices(ind.trades)) < 3)
    => ind.ret.score = RZero

WhaleCalled == pc = "indicator_returned" /\ ind.fn = "detector.whale"

\* the addresses of the usable trades, in order of first appearance, with
\* their total positions and numbers of trades
WhaleKeys == AddressKeys(WhaleUsable(ind.trades))
WhalePositions == AddressVolumes(WhaleUsable(ind.trades), WhaleKeys)
WhaleCounts == AddressCounts(WhaleUsable(ind.trades), WhaleKeys)

\* the addresses with at least 2 trades
Accumulators == {k \in 1..Len(WhaleKeys) : WhaleCounts[k] >= 2}

\* totalPosition / max(elapsedHours, 1) of the k-th address
SpeedOf(k) ==
    RDiv(RInt(WhalePositions[k]),
         RMax(Rat(TimeSpan(WhaleUsable(ind.trades), WhaleKeys[k]), 3600), RInt(1)))

ScoreFromSpeed(speed) == RMin(RDiv(speed, RInt(100)), RInt(10))

\* C25 as stated: the detector's whale score is min(maxSpeed / 100, 10) for
\* the largest accumulationSpeed over the addresses with at least 2 trades.
C25_ScoreFromFastest ==
    (WhaleCalled /\ Accumulators # {}) =>
        \E k \in Accumulators :
            /\ \A j \in Accumulators : RLeq(SpeedOf(j), SpeedOf(k))
            /\ ind.ret.score = ScoreFromSpeed(SpeedOf(k))

\* C25, amended: the detector's whale score is min(speed / 100, 10) for the
\* accumulationSpeed of the address with the largest total position among
\* the addresses with at least 2 trades (the one seen first when several hold
\* the largest position), and 0 when no address has 2 trades.
C25_ScoreFromLargestPosition ==
    WhaleCalled =>
        /\ Accumulators = {} => ind.ret.score = RZero
        /\ Accumulators # {} =>
               \E k \in Accumulators :
                   /\ \A j \in Accumulators :
                          \/ WhalePositions[j] < WhalePositions[k]
                          \/ (WhalePositions[j] = WhalePositions[k] /\ k <= j)
                   /\ ind.ret.score = ScoreFromSpeed(SpeedOf(k))

\* two addresses with 2 trades each: the one with the larger position is the
\* slower one, and the score is the one of its speed
C25_Witness ==
    /\ WhaleCalled
    /\ \E j, k \in Accumulators :
           /\ WhalePositions[j] < WhalePositions[k]
           /\ RLess(SpeedOf(k), SpeedOf(j))
           /\ ind.ret.score = ScoreFromSpeed(SpeedOf(k))
           /\ ind.ret.score # ScoreFromSpeed(SpeedOf(j))

\* a market with an id whose fetched trades number 5 to 10
FewTrades(trades) == Len(trades) >= 5 /\ Len(trades) <= 10

\* C26: backtest_market returns a BacktestResult only for a market with at
\* least 11 fetched trades; a market with 5 to 10 trades passes the
\* minimum-trade check and reaches find_signal_point, which finds no signal,
\* so that the market yields null.
C26_ElevenTradesNeeded ==
    /\ [](Reported => Len(all_trades) >= 11)
    /\ []((pc = "signal" /\ FewTrades(all_trades)) => IsNone(fsp_ret.timestamp))
    /\ []((pc = "loop" /\ markets[mi] # "" /\ FewTrades(all_trades))
              => IsNone(result))
    /\ [][(pc = "backtest_market" /\ markets[mi] # "" /\ FewTrades(all_trades'))
              => pc' = "find_signal_point"]_vars

\* a market with exactly 10 trades is back from find_signal_point, which
\* scanned no prefix, and from backtest_market with a null result
C26_Witness ==
    /\ pc = "loop"
    /\ markets[mi] # ""
    /\ Len(all_trades) = 10
    /\ fsp_ret = [timestamp |-> None, probability |-> Some(RZero)]
    /\ scanned = <<>>
    /\ IsNone(result)

\* the weighted aggregate, movement term 0, of the four scores computed on
\* the trades_at_signal partition of the result
PartitionAggregate(r) ==
    BacktestProbability(
        WindowScores(StrictlyBefore(all_trades, r.signal_timestamp)).scores)

\* C27: in every BacktestResult insider_probability is the weighted aggregate
\* (movement term 0) of the concentration, velocity, skew and whale scores of
\* the trades_at_signal partition, whose 2-decimal roundings are the reported
\* indicator_scores, also when several trades share the signal timestamp.
C27_ProbabilityOfReportedPrefix ==
    Reported => Val(result).insider_probability = PartitionAggregate(Val(result))

RowsOf(trade_id) == {k \in 1..Len(trade_log) : trade_log[k].id = trade_id}

\* C28: at the end of every polling cycle of run_bot, a cycle cut short by an
\* exception included, every id in seen_trade_ids has exactly one row in the
\* trade log.
C28_SeenMeansLogged ==
    pc = "cycle" =>
        \A trade_id \in seen_trade_ids : Cardinality(RowsOf(trade_id)) = 1

\* a cycle has failed: an id was marked as seen and not logged
FailedBefore == seen_trade_ids # LoggedIds

\* C29: run_bot stops only on KeyboardInterrupt; an exception raised while a
\* trade is handled is caught and leads back to the top of the loop;
\* seen_trade_ids is kept across cycles and across such failures; and, also
\* after failures, the bot goes on to start the next scan unless interrupted.
C29_KeepsScanning ==
    /\ [][pc' = "stopped" =>
              (seen_trade_ids' = seen_trade_ids /\ trade_log' = trade_log)]_vars
    /\ [][seen_trade_ids \subseteq seen_trade_ids' \/ pc = "run_bot"]_vars
    /\ \A n \in 0..(MaxCycles - 1) :
           (cycles = n /\ pc \in {"cycle", "trades"})
               ~> (cycles = n + 1 \/ pc = "stopped")
    /\ \A n \in 0..(MaxCycles - 1) :
           (cycles = n /\ pc = "cycle" /\ FailedBefore)
               ~> ((cycles = n + 1 /\ pc = "trades" /\ FailedBefore)
                     \/ pc = "stopped")

\* a second scan is under way after a first one that failed, with the id of
\* the failing trade still in seen_trade_ids
C29_Witness ==
    /\ pc = "trades"
    /\ cycles = 2
    /\ "h3_7" \in seen_trade_ids
    /\ "h3_7" \notin LoggedIds
    /\ fetched # <<>>

\* neither program is between opening the file and closing it
FileClosed ==
    /\ writers.bot.pc \notin {"init_write", "log_write"}
    /\ writers.backtest.pc # "write"

DataRowsOf(file) ==
    IF IsNone(file) THEN {}
    ELSE {Val(file)[k] : k \in 1..Len(Val(file))} \ {Header}

HeaderFirstAndOnce(rows) ==
    /\ rows # <<>>
    /\ rows[1] = Header
    /\ \A k \in 2..Len(rows) : rows[k] # Header

\* C30: under every interleaving of the steps of bot.py and backtest.py,
\* all_trades.csv holds exactly one header row, as its first row, whenever
\* no program has it open, and no data row once written is ever lost.
C30_OneHeaderNoLostRow ==
    /\ []((Exists(data_file) /\ FileClosed) => HeaderFirstAndOnce(Val(data_file)))
    /\ [][DataRowsOf(data_file) \subseteq DataRowsOf(data_file')]_vars

====
